---------------------------- MODULE Spec2Model ----------------------------
(***************************************************************************)
(* Verification model of the IEC 60287 thermal engine (Lab-G).             *)
(*                                                                         *)
(*   Spec     CableFemAnalyzer.solve (fem/analyzer.py): mesh validation,   *)
(*            assembly, the outer heat/temperature loop, the result.       *)
(*   AmpSpec  CableAmpacityCalculator._compute_result                      *)
(*            (gui/ampacity_calculator.py): conductor resistance, T1..T3,  *)
(*            T4 for every installation branch, the ampacity.              *)
(*   MeshSpec build_structured_mesh (fem/mesh_builder.py): the cables and  *)
(*            ducts of the scene, the domain, both node axes, the          *)
(*            resistivity and ownership of every cell.                     *)
(*   GrowthSpec _enforce_spacing_growth (fem/mesh_builder.py) on node      *)
(*            lists, relevant positions, ratios and steps of its own.      *)
(*   PanelSpec CableFEMPanel and FemWorker (gui/cable_fem.py): run         *)
(*            requests, the worker thread and the slots its signals reach. *)
(*   RunSpec  FemWorker.run (gui/cable_fem.py) around solve: the signals   *)
(*            the worker emits, in the order it emits them.                *)
(*                                                                         *)
(* Conventions.  Python floats are integers here: temperatures in degC,    *)
(* heats in W/m, lengths in mm.  An Optional value is a sequence: <<>> is  *)
(* None and <<v>> is the value v.  The sparse linear solve is SciPy code   *)
(* outside the repository: its numerical answer is a free choice among the *)
(* node vectors that satisfy the rows the assembly pins (DirichletNodes).  *)
(* The boundary flux integrals of the result are functions of the          *)
(* temperature field alone and are not carried in the result record.       *)
(*                                                                         *)
(* The ampacity part works in fixed point: thermal resistivities and       *)
(* resistances, ratios and logarithms are in thousandths, the conductor    *)
(* resistance in micro-ohm per metre.  Quotients and roots round away      *)
(* from zero, so a quantity is zero or negative here exactly when the      *)
(* exact quantity is.  A math.log, math.sqrt or division evaluated outside *)
(* its domain raises in Python: every such site reports, next to its       *)
(* value, whether the argument it was given lay outside the domain.        *)
(*                                                                         *)
(* The mesh builder works in hundredths of a millimetre, resistivities in  *)
(* units of 1e-5 K.m/W and ratios in thousandths; a cell centre is kept    *)
(* doubled, as the sum of its two nodes.  The tolerances of the code       *)
(* (1e-4, 1e-6, 1e-9 mm) lie below one unit and compare as zero.           *)
(***************************************************************************)
EXTENDS Integers, Sequences, FiniteSets, TLC

VARIABLES
    mesh,               \* StructuredMesh handed to solve()
    loads,              \* Sequence[CableLoad] handed to solve()
    cfg,                \* constructor and call arguments of the analyzer
    pc,                 \* position inside solve()
    error,              \* <<>> or <<name of the raised exception>>
    robin_nodes,        \* nodes whose rows carry the convection terms
    direct_solver,      \* whether a factorised direct solver was set up
    outer_index,        \* loop variable of the outer loop
    heat_values,        \* current heat per load (W/m)
    heat_cells,         \* heat density per cell
    solution,           \* node vector of the last linear solve (prior_solution)
    temperatures_grid,  \* solution reshaped to ny rows x nx columns
    cable_temperatures, \* per-cable summary of the last solve
    updated,            \* result of the last _update_heat_values
    outer_converged,
    solver_converged,
    total_iterations,
    solves,             \* number of linear solves started in this run
    progress,           \* values passed to progress_callback, as <<num, den>>
    result,             \* <<>> or <<CableFemResult>>
    amp_in,             \* arguments of _compute_result and the scene config
    amp_pc,             \* position inside _compute_result
    issues,             \* the issues list
    conductor_resistance, \* Optional conductor resistance
    t1, t2, t3, t4,     \* Optional thermal resistances
    numerator,          \* Optional: set where the code computes it
    denominator,        \* Optional: set where the code computes it
    ampacity,           \* Optional ampacity
    amp_raised,         \* an exception left _compute_result
    amp_result,         \* <<>> or <<AmpacityResult>>
    amp_calls,          \* results of the calls already returned, oldest first
    build_call,         \* the arguments of build_structured_mesh as the caller passed them
    scene,              \* PlacementScene handed to build_structured_mesh
    grid_step_mm,       \* argument, then its clamped value
    padding_mm,         \* argument, then its clamped value
    max_growth_ratio,   \* argument (thousandths), then its clamped value
    default_resistivity_k_m_per_w, \* argument
    cables,             \* List[MeshCableDefinition]
    ducts,              \* List[MeshDuctDefinition]
    x_nodes_mm,         \* node coordinates along x
    y_nodes_mm,         \* node coordinates along y
    base_resistivity,   \* per-cell thermal resistivity, rows of columns
    conductor_index,    \* per-cell owner: -1 or the index of a cable
    cable_idx,          \* loop variable of the cable loop
    build_pc,           \* position inside build_structured_mesh
    build_error,        \* <<>> or <<message of the raised ValueError>>
    build_output,       \* <<>> or <<MeshBuildOutput>>
    mesh_output,        \* CableFEMPanel._mesh_output: <<>> or <<cable labels>>
    pending_loads,      \* CableFEMPanel._pending_loads, as cable labels
    worker_thread,      \* CableFEMPanel._worker_thread: <<>> or <<thread>>
    worker,             \* CableFEMPanel._worker: <<>> or <<thread of the worker>>
    latest_report,      \* CableFEMPanel._latest_report: <<>> or <<thread reported>>
    run_button,         \* whether the run button is enabled
    refresh_button,     \* whether the refresh button is enabled
    progress_bar,       \* whether the progress bar is visible
    thread_state,       \* the state of every QThread created, oldest first
    main_queue,         \* calls queued for the panel's thread, as <<slot, thread>>
    requests,           \* run requests handled so far
    aborted,            \* the process was aborted
    growth_call,        \* arguments of a call of _enforce_spacing_growth
    growth_pc,          \* "call" before, "returned" after that call
    growth_result,      \* the list the call returned
    run_pc,             \* "none", or "running" and "returned" for FemWorker.run
    emitted             \* the signals FemWorker.run emitted, as <<signal, argument>>

femVars == <<mesh, loads, cfg, pc, error, robin_nodes, direct_solver,
             outer_index,
             heat_values, heat_cells, solution, temperatures_grid,
             cable_temperatures, updated, outer_converged, solver_converged,
             total_iterations, solves, progress, result>>

\* everything solve() computes, the progress log left out
coreVars == <<mesh, loads, cfg, pc, error, robin_nodes, direct_solver,
             outer_index,
              heat_values, heat_cells, solution, temperatures_grid,
              cable_temperatures, updated, outer_converged, solver_converged,
              total_iterations, solves, result>>

ampVars == <<amp_in, amp_pc, issues, conductor_resistance, t1, t2, t3, t4,
             numerator, denominator, ampacity, amp_raised, amp_result, amp_calls>>

meshVars == <<build_call, scene, grid_step_mm, padding_mm, max_growth_ratio,
              default_resistivity_k_m_per_w, cables, ducts, x_nodes_mm, y_nodes_mm,
              base_resistivity, conductor_index, cable_idx, build_pc, build_error,
              build_output>>

panelVars == <<mesh_output, pending_loads, worker_thread, worker, latest_report,
               run_button, refresh_button, progress_bar, thread_state, main_queue,
               requests, aborted>>

growthVars == <<growth_call, growth_pc, growth_result>>

runVars == <<run_pc, emitted>>

\* what each engine leaves alone
notFemVars == <<ampVars, meshVars, panelVars, growthVars, runVars>>
notAmpVars == <<femVars, meshVars, panelVars, growthVars, runVars>>
notMeshVars == <<femVars, ampVars, panelVars, growthVars, runVars>>
notPanelVars == <<femVars, ampVars, meshVars, growthVars, runVars>>
notGrowthVars == <<femVars, ampVars, meshVars, panelVars, runVars>>
notRunVars == <<femVars, ampVars, meshVars, panelVars, growthVars>>

vars == <<femVars, ampVars, meshVars, panelVars, growthVars, runVars>>

--------------------------------------------------------------------------
(* Generic helpers *)

None == <<>>
Some(v) == <<v>>
IsNone(o) == o = <<>>
Val(o) == o[1]

Max2(a, b) == IF a >= b THEN a ELSE b
Min2(a, b) == IF a <= b THEN a ELSE b

RECURSIVE SeqSum(_)
SeqSum(s) == IF s = <<>> THEN 0 ELSE Head(s) + SeqSum(Tail(s))

RECURSIVE SeqMax(_)
SeqMax(s) == IF Len(s) = 1 THEN s[1] ELSE Max2(Head(s), SeqMax(Tail(s)))

RECURSIVE SeqMin(_)
SeqMin(s) == IF Len(s) = 1 THEN s[1] ELSE Min2(Head(s), SeqMin(Tail(s)))

RECURSIVE Flatten(_)
Flatten(rows) == IF rows = <<>> THEN <<>> ELSE Head(rows) \o Flatten(Tail(rows))

--------------------------------------------------------------------------
(* Bounds *)

MaxOuter == 3


--------------------------------------------------------------------------
(* Inputs of solve(): meshes, loads, analyzer configuration *)

\* node axes that fail the validation
BadAxes == {<<0>>, <<0, 0>>, <<0, 20, 10>>}

\* a rows x cols array holding v everywhere
Uniform(rows, cols, v) == [j \in 1..rows |-> [i \in 1..cols |-> v]]

MeshOf(x, y, rho, ci) ==
    [x_nodes_mm |-> x, y_nodes_mm |-> y,
     thermal_resistivity_k_m_per_w |-> rho, conductor_index |-> ci]

\* meshes that pass the validation: 2x2 nodes with one conductor cell,
\* 3x2 and 3x3 nodes with two conductors, 3x2 nodes with one conductor that
\* owns two cells of different width, 3x3 nodes without conductor
GoodMeshes ==
    { MeshOf(<<0, 10>>, <<0, 10>>, Uniform(1, 1, 1), <<<<0>>>>),
      MeshOf(<<0, 10, 30>>, <<0, 10>>, Uniform(1, 2, 1), <<<<0, 1>>>>),
      MeshOf(<<0, 10, 50>>, <<0, 10>>, Uniform(1, 2, 1), <<<<0, 0>>>>),
      MeshOf(<<0, 10, 30>>, <<0, 10, 30>>, Uniform(2, 2, 1), <<<<0, -1>>, <<-1, 1>>>>),
      MeshOf(<<0, 10, 30>>, <<0, 10, 30>>, Uniform(2, 2, 1), Uniform(2, 2, -1)) }

\* one mesh per way of failing the validation
BadMeshes ==
    { MeshOf(x, <<0, 10>>, Uniform(1, Len(x) - 1, 1), Uniform(1, Len(x) - 1, -1)) :
        x \in BadAxes }
    \cup
    { MeshOf(<<0, 10>>, y, Uniform(Len(y) - 1, 1, 1), Uniform(Len(y) - 1, 1, -1)) :
        y \in BadAxes }
    \cup
    { MeshOf(<<0, 10, 30>>, <<0, 10>>, Uniform(1, 1, 1), Uniform(1, 2, -1)),
      MeshOf(<<0, 10, 30>>, <<0, 10>>, Uniform(2, 2, 1), Uniform(1, 2, -1)),
      MeshOf(<<0, 10, 30>>, <<0, 10>>, <<<<1, 1>>, <<1>>>>, Uniform(1, 2, -1)),
      MeshOf(<<0, 10, 30>>, <<0, 10>>, Uniform(1, 2, 1), Uniform(1, 1, 0)),
      MeshOf(<<0, 10, 30>>, <<0, 10>>, Uniform(1, 2, 1), Uniform(2, 2, 0)),
      MeshOf(<<0, 10>>, <<0, 10, 30>>, Uniform(2, 1, 1), <<<<0>>, <<0, 0>>>>) }

\* MeshCableDefinition, the fields solve() reads
Definition(label, current, area, rho, alpha) ==
    [label |-> label, nominal_current_a |-> current, conductor_area_mm2 |-> area,
     conductor_resistivity_ohm_mm2_per_m |-> rho,
     conductor_temp_coefficient_per_c |-> alpha]

CableLoad(def, heat, auto) ==
    [definition |-> def, heat_w_per_m |-> heat, auto_update |-> auto]

FixedLoad == CableLoad(Definition("A", None, 1, Some(1), Some(1)), 5, FALSE)
NegativeLoad == CableLoad(Definition("B", Some(1), 1, Some(1), Some(1)), -3, FALSE)
AutoLoad == CableLoad(Definition("A", Some(1), 1, Some(1), Some(1)), 1, TRUE)
AutoLoadB == CableLoad(Definition("B", Some(2), 1, Some(1), Some(1)), 4, TRUE)
AutoNoCurrent == CableLoad(Definition("B", None, 1, Some(1), Some(1)), 2, TRUE)
AutoNoArea == CableLoad(Definition("B", Some(1), 0, Some(1), Some(1)), 2, TRUE)
\* a second cable that carries the label of AutoLoad
AutoLoadSameLabel == CableLoad(Definition("A", Some(2), 1, Some(1), Some(1)), 4, TRUE)

LoadLists ==
    { <<>>, <<FixedLoad>>, <<AutoLoad>>, <<AutoLoad, NegativeLoad>>,
      <<AutoLoad, AutoLoadB>>, <<AutoLoad, AutoNoCurrent>>,
      <<FixedLoad, AutoNoArea>>, <<AutoLoad, AutoLoadSameLabel>> }

Config(outer, cb, direct, simplified, convection) ==
    [ max_outer_iterations |-> outer,
      heat_tolerance_w_per_m |-> 15,
      max_iterations |-> 4,
      prefer_direct_solver |-> direct,
      direct_solver_threshold |-> 6,
      ambient_temp_c |-> 20,
      surface_convection_w_per_m2k |-> convection,
      progress_callback |-> cb,
      simplified_constant_rho |-> simplified ]

\* every outer-iteration limit with and without callback, and one slice
\* each for the iterative solver, the constant-resistivity mode and a
\* convection coefficient of zero
Configs ==
    { Config(outer, cb, TRUE, FALSE, 8) : outer \in 0..MaxOuter, cb \in BOOLEAN }
    \cup { Config(MaxOuter, cb, FALSE, FALSE, 8) : cb \in BOOLEAN }
    \cup { Config(MaxOuter, cb, TRUE, TRUE, 8) : cb \in BOOLEAN }
    \cup { Config(1, cb, TRUE, FALSE, 0) : cb \in BOOLEAN }

\* the calls of solve() that are explored
Scenarios ==
    (GoodMeshes \X LoadLists \X Configs)
    \cup (BadMeshes \X {<<FixedLoad>>} \X Configs)

--------------------------------------------------------------------------
(* solve(): validation (analyzer.py 116-134) *)

\* np.asarray(...).shape of a list of rows; <<>> when the rows are ragged
ArrayShape(a) ==
    IF a = <<>> THEN Some(<<0>>)
    ELSE IF \A j \in 1..Len(a) : Len(a[j]) = Len(a[1])
         THEN Some(<<Len(a), Len(a[1])>>)
         ELSE None

\* np.diff
Diff(nodes) == [k \in 1..(Len(nodes) - 1) |-> nodes[k + 1] - nodes[k]]

TooFewNodes(m) == Len(m.y_nodes_mm) < 2 \/ Len(m.x_nodes_mm) < 2

ResistivityShapeMismatch(m) ==
    ArrayShape(m.thermal_resistivity_k_m_per_w)
        # Some(<<Len(m.y_nodes_mm) - 1, Len(m.x_nodes_mm) - 1>>)

ConductorShapeMismatch(m) ==
    \/ Len(m.conductor_index) # Len(m.y_nodes_mm) - 1
    \/ \E j \in 1..Len(m.conductor_index) :
          Len(m.conductor_index[j]) # Len(m.x_nodes_mm) - 1

NotMonotonic(m) ==
    \/ \E k \in 1..(Len(m.x_nodes_mm) - 1) : Diff(m.x_nodes_mm)[k] <= 0
    \/ \E k \in 1..(Len(m.y_nodes_mm) - 1) : Diff(m.y_nodes_mm)[k] <= 0

\* variant: the validation without the monotonicity check
ValidationErrorShapesOnly(m) ==
    IF TooFewNodes(m) THEN Some("ValueError: 2x2 grid")
    ELSE IF ResistivityShapeMismatch(m) THEN Some("ValueError: resistivity shape")
    ELSE IF ConductorShapeMismatch(m) THEN Some("ValueError: conductor shape")
    ELSE None

\* the checks in the order the code makes them; the first that fails raises
ValidationError(m) ==
    IF TooFewNodes(m) THEN Some("ValueError: 2x2 grid")
    ELSE IF ResistivityShapeMismatch(m) THEN Some("ValueError: resistivity shape")
    ELSE IF ConductorShapeMismatch(m) THEN Some("ValueError: conductor shape")
    ELSE IF NotMonotonic(m) THEN Some("ValueError: monotonic")
    ELSE None

--------------------------------------------------------------------------
(* solve(): assembly (analyzer.py 136-228) *)

Nx(m) == Len(m.x_nodes_mm)
Ny(m) == Len(m.y_nodes_mm)
TotalNodes(m) == Nx(m) * Ny(m)

\* node (column i, row j), both from 1, in the solver's numbering i*ny + j
NodeId(m, i, j) == (i - 1) * Ny(m) + (j - 1) + 1

\* nodes whose rows receive the convection (Robin) terms: both ends of
\* every top edge when the coefficient is positive
RobinNodes(m, c) ==
    IF c.surface_convection_w_per_m2k > 0
    THEN UNION { {NodeId(m, i, 1), NodeId(m, i + 1, 1)} :
                    i \in { k \in 1..(Nx(m) - 1) :
                              m.x_nodes_mm[k + 1] - m.x_nodes_mm[k] # 0 } }
    ELSE {}

\* nodes whose temperature the assembled system pins to the ambient value:
\* the stiffness matrix is used as assembled, no row is replaced or removed
DirichletNodes(m, c) == {}

\* structural non-zeros of the P1 stiffness matrix: the diagonal and both
\* directions of every edge of the triangulation
StiffnessNnz(m) ==
    TotalNodes(m)
    + 2 * ((Nx(m) - 1) * Ny(m) + Nx(m) * (Ny(m) - 1) + (Nx(m) - 1) * (Ny(m) - 1))

\* a factorised solver, an LU solver or the spsolve wrapper is installed
\* whenever the direct path is preferred and the system is small enough
HasDirectSolver(m, c) ==
    c.prefer_direct_solver /\ TotalNodes(m) <= Max2(1, c.direct_solver_threshold)

MaxOuterIterations(c) == Max2(1, c.max_outer_iterations)
HeatTolerance(c) == Max2(c.heat_tolerance_w_per_m, 0)
MaxIterations(c) == Max2(1, c.max_iterations)

TotalOuter(c) ==
    IF c.simplified_constant_rho THEN 1 ELSE Max2(MaxOuterIterations(c), 1)

InitialHeatValues(ls) == [k \in 1..Len(ls) |-> Max2(ls[k].heat_w_per_m, 0)]

--------------------------------------------------------------------------
(* Helpers of the outer loop (analyzer.py 358-383, 504-600) *)

\* the cells of a rows x cols array in row-major order, as <<j, i>>
CellSeq(rows, cols) ==
    [n \in 1..(rows * cols) |-> <<((n - 1) \div cols) + 1, ((n - 1) % cols) + 1>>]

\* the cells whose ownership index is target_index (a Python index, from 0)
OwnedCells(m, target_index) ==
    SelectSeq(CellSeq(Ny(m) - 1, Nx(m) - 1),
              LAMBDA c : m.conductor_index[c[1]][c[2]] = target_index)

\* _conductor_area, in mm^2
ConductorArea(m, target_index) ==
    LET owned == OwnedCells(m, target_index)
    IN  SeqSum([n \in 1..Len(owned) |->
                  Diff(m.x_nodes_mm)[owned[n][2]] * Diff(m.y_nodes_mm)[owned[n][1]]])

\* heat / area_m2 in W/m^3, the area being held in mm^2
HeatDensity(heat, area_mm2) == (heat * 1000000) \div area_mm2

\* variant: the densities are added to those of the previous iteration
PopulateHeatCellsAccumulating(m, hv) ==
    [j \in 1..(Ny(m) - 1) |-> [i \in 1..(Nx(m) - 1) |->
        heat_cells[j][i]
        + SeqSum([k \in 1..Len(hv) |->
            IF /\ hv[k] > 0
               /\ ConductorArea(m, k - 1) > 0
               /\ m.conductor_index[j][i] = k - 1
            THEN HeatDensity(hv[k], ConductorArea(m, k - 1))
            ELSE 0])]]

\* _populate_heat_cells: every cell is zeroed, then each load with positive
\* heat and positive owned area adds its density to the cells it owns
PopulateHeatCells(m, hv) ==
    [j \in 1..(Ny(m) - 1) |-> [i \in 1..(Nx(m) - 1) |->
        SeqSum([k \in 1..Len(hv) |->
            IF /\ hv[k] > 0
               /\ ConductorArea(m, k - 1) > 0
               /\ m.conductor_index[j][i] = k - 1
            THEN HeatDensity(hv[k], ConductorArea(m, k - 1))
            ELSE 0])]]

\* solution.reshape((nx, ny)).T : ny rows of nx node temperatures
Reshape(m, sol) ==
    [j \in 1..Ny(m) |-> [i \in 1..Nx(m) |-> sol[NodeId(m, i, j)]]]

CellTemp(T, j, i) ==
    (T[j][i] + T[j][i + 1] + T[j + 1][i] + T[j + 1][i + 1]) \div 4

\* _summarise_cable_temperatures: one entry per definition that owns a cell
SummaryEntry(m, T, ls, k) ==
    LET owned == OwnedCells(m, k - 1)
        temps == [n \in 1..Len(owned) |-> CellTemp(T, owned[n][1], owned[n][2])]
    IN  IF temps = <<>> THEN <<>>
        ELSE << [label |-> ls[k].definition.label,
                 max_temp_c |-> SeqMax(temps),
                 average_temp_c |-> SeqSum(temps) \div Len(temps)] >>

SummariseCableTemperatures(m, T, ls) ==
    Flatten([k \in 1..Len(ls) |-> SummaryEntry(m, T, ls, k)])

\* temp_map.get(label): a dict built from the list, the last entry of a
\* label wins
TempMapGet(ct, label) ==
    LET hits == { n \in 1..Len(ct) : ct[n].label = label }
    IN  IF hits = {} THEN None
        ELSE Some(ct[CHOOSE n \in hits : \A o \in hits : o <= n])

\* _temperature_dependent_resistance
TemperatureDependentResistance(def, temperature_c) ==
    LET area == Max2(def.conductor_area_mm2, 0)
        rho == def.conductor_resistivity_ohm_mm2_per_m
    IN  IF area <= 0 \/ IsNone(rho) \/ (~IsNone(rho) /\ Val(rho) <= 0) THEN None
        ELSE LET alpha == IF IsNone(def.conductor_temp_coefficient_per_c) THEN 0
                          ELSE Val(def.conductor_temp_coefficient_per_c)
                 rho_theta == Val(rho) * (1 + alpha * (temperature_c - 20))
                 resistance == rho_theta \div area
             IN  IF resistance > 0 THEN Some(resistance) ELSE None

Abs(x) == IF x < 0 THEN -x ELSE x

\* variant: an update that recomputes every load, whatever its flag
UpdatedHeatIgnoringFlag(hv, ls, ct, tolerance, k) ==
    LET def == ls[k].definition
        current == def.nominal_current_a
        temp_info == TempMapGet(ct, def.label)
    IN  IF IsNone(current) \/ (~IsNone(current) /\ Val(current) <= 0) THEN hv[k]
        ELSE IF IsNone(temp_info) THEN hv[k]
        ELSE LET resistance ==
                     TemperatureDependentResistance(def, Val(temp_info).max_temp_c)
             IN  IF IsNone(resistance) THEN hv[k]
                 ELSE LET new_heat ==
                              Max2(Val(current) * Val(current) * Val(resistance), 0)
                      IN  IF Abs(new_heat - hv[k]) > tolerance
                          THEN new_heat ELSE hv[k]

\* the heat of load k after one pass of _update_heat_values
UpdatedHeat(hv, ls, ct, tolerance, k) ==
    LET load == ls[k]
        def == load.definition
        current == def.nominal_current_a
        temp_info == TempMapGet(ct, def.label)
    IN  IF ~load.auto_update THEN hv[k]
        ELSE IF IsNone(current) \/ (~IsNone(current) /\ Val(current) <= 0) THEN hv[k]
        ELSE IF IsNone(temp_info) THEN hv[k]
        ELSE LET resistance ==
                     TemperatureDependentResistance(def, Val(temp_info).max_temp_c)
             IN  IF IsNone(resistance) THEN hv[k]
                 ELSE LET new_heat ==
                              Max2(Val(current) * Val(current) * Val(resistance), 0)
                      IN  IF Abs(new_heat - hv[k]) > tolerance
                          THEN new_heat ELSE hv[k]

UpdateHeatValues(hv, ls, ct, tolerance) ==
    [k \in 1..Len(ls) |-> UpdatedHeat(hv, ls, ct, tolerance, k)]

\* the return value of _update_heat_values
HeatUpdated(hv, ls, ct, tolerance) ==
    \E k \in 1..Len(ls) :
        /\ UpdatedHeat(hv, ls, ct, tolerance, k) # hv[k]

--------------------------------------------------------------------------
(* The linear solve (analyzer.py 251-306) *)

NodeRises == {40, 80}

\* the node sets a candidate field heats: none, all, the first mesh column
HotSets(m) == { {}, 1..TotalNodes(m), { NodeId(m, 1, j) : j \in 1..Ny(m) } }

\* the temperature fields the sparse solver is taken to produce
CandidateFields(m, c) ==
    { [n \in 1..TotalNodes(m) |->
          IF n \in H THEN c.ambient_temp_c + r ELSE c.ambient_temp_c] :
        <<H, r>> \in HotSets(m) \X NodeRises }

\* what the sparse solver may hand back: a candidate field that keeps the
\* pinned nodes at the ambient value.  With convection terms and no heat the
\* right-hand side is the convection load alone, and the ambient field is
\* the solution of that system.
Solutions(m, c, hv) ==
    { s \in CandidateFields(m, c) :
        /\ \A n \in DirichletNodes(m, c) : s[n] = c.ambient_temp_c
        /\ (c.surface_convection_w_per_m2k > 0 /\ SeqSum(hv) = 0)
              => \A n \in 1..TotalNodes(m) : s[n] = c.ambient_temp_c }

\* what scipy's cg may report: info (0 converged, >0 iteration limit, <0
\* breakdown) and the number of callback invocations
CgOutcomes(c) ==
    { [info |-> 0, count |-> 0], [info |-> 0, count |-> 2],
      [info |-> MaxIterations(c), count |-> MaxIterations(c)],
      [info |-> -1, count |-> 0] }

\* solve_converged after the fallback to spsolve (analyzer.py 285-290)
SolveConverged(m, o) ==
    IF o.info = 0 THEN TRUE
    ELSE StiffnessNnz(m) # 0 /\ TotalNodes(m) # 0

\* iterations_this of an iterative solve (analyzer.py 286-297)
IterationsThis(m, c, o) ==
    LET after_fallback ==
            IF o.info # 0 /\ StiffnessNnz(m) # 0 /\ TotalNodes(m) # 0
            THEN IF o.count # 0 /\ o.count < MaxIterations(c) THEN o.count ELSE 1
            ELSE o.count
    IN  IF after_fallback = 0
        THEN IF SolveConverged(m, o) THEN 1 ELSE MaxIterations(c)
        ELSE after_fallback

--------------------------------------------------------------------------
(* CableFemAnalyzer.solve as a state machine *)

\* the state on entry to solve() for the call sc
SolveStart(sc) ==
    /\ mesh = sc[1] /\ loads = sc[2] /\ cfg = sc[3]
    /\ pc = "start"
    /\ error = None
    /\ robin_nodes = {}
    /\ direct_solver = FALSE
    /\ outer_index = 0
    /\ heat_values = <<>>
    /\ heat_cells = <<>>
    /\ solution = <<>>
    /\ temperatures_grid = <<>>
    /\ cable_temperatures = <<>>
    /\ updated = FALSE
    /\ outer_converged = FALSE
    /\ solver_converged = TRUE
    /\ total_iterations = 0
    /\ solves = 0
    /\ progress = <<>>
    /\ result = None

\* the calculator's locals before _compute_result is entered with call a
ComputeStart(a) ==
    /\ amp_in = a
    /\ amp_pc = "start"
    /\ issues = <<>>
    /\ conductor_resistance = None
    /\ t1 = None /\ t2 = None /\ t3 = None /\ t4 = None
    /\ numerator = None
    /\ denominator = None
    /\ ampacity = None
    /\ amp_raised = FALSE
    /\ amp_result = None
    /\ amp_calls = <<>>

\* the arguments and locals on entry to build_structured_mesh for the call b
BuildStart(b) ==
    /\ build_call = b
    /\ scene = b.scene
    /\ grid_step_mm = b.grid_step_mm
    /\ padding_mm = b.padding_mm
    /\ max_growth_ratio = b.max_growth_ratio
    /\ default_resistivity_k_m_per_w = b.default_resistivity_k_m_per_w
    /\ cables = <<>>
    /\ ducts = <<>>
    /\ x_nodes_mm = <<>>
    /\ y_nodes_mm = <<>>
    /\ base_resistivity = <<>>
    /\ conductor_index = <<>>
    /\ cable_idx = 0
    /\ build_pc = "start"
    /\ build_error = None
    /\ build_output = None

\* no build in progress
IdleBuild ==
    [scene |-> <<>>, grid_step_mm |-> 0, padding_mm |-> 0, max_growth_ratio |-> 0,
     default_resistivity_k_m_per_w |-> 0]

\* the panel after CableFEMPanel.__init__ (cable_fem.py 98-133), built the
\* mesh output of its first refresh
PanelStart(built) ==
    /\ mesh_output = built
    /\ pending_loads = <<>>
    /\ worker_thread = None
    /\ worker = None
    /\ latest_report = None
    /\ run_button = TRUE
    /\ refresh_button = TRUE
    /\ progress_bar = FALSE
    /\ thread_state = <<>>
    /\ main_queue = <<>>
    /\ requests = 0
    /\ aborted = FALSE

\* the arguments of a call of _enforce_spacing_growth, its result not yet
\* computed
GrowthStart(g) ==
    /\ growth_call = g
    /\ growth_pc = "call"
    /\ growth_result = <<>>

\* no call under study
IdleGrowth ==
    [nodes |-> <<>>, relevant_positions |-> <<>>, growth_ratio |-> 0, min_step |-> 0]

\* FemWorker.run at the position at, before any signal
RunStart(at) ==
    /\ run_pc = at
    /\ emitted = <<>>

Init ==
    /\ RunStart("none")
    /\ GrowthStart(IdleGrowth)
    /\ \E sc \in Scenarios : SolveStart(sc)
    /\ ComputeStart(<<>>)
    /\ BuildStart(IdleBuild)
    /\ PanelStart(None)

\* variant: a report of the share that is still to do
ReportRemaining(cb, num, den) ==
    IF cb THEN progress' = Append(progress, <<den - num, den>>) ELSE TRUE

\* variant: a report that overshoots by one step
ReportNextStep(cb, num, den) ==
    IF cb THEN progress' = Append(progress, <<num + 1, den>>) ELSE TRUE

\* "if progress_callback: progress_callback(num / den)"; cb says whether a
\* callback was supplied.  Without one nothing is said about the log here:
\* NoCallback keeps it.
Report(cb, num, den) ==
    IF cb THEN progress' = Append(progress, <<num, den>>) ELSE TRUE

NoCallback == IF cfg.progress_callback THEN TRUE ELSE UNCHANGED progress

\* analyzer.py 116-134: a mesh that fails a check raises at once
ValidateFail ==
    /\ UNCHANGED notFemVars
    /\ pc = "start"
    /\ ~IsNone(ValidationError(mesh))
    /\ pc' = "raised"
    /\ error' = ValidationError(mesh)
    /\ UNCHANGED <<mesh, loads, cfg, robin_nodes, direct_solver, outer_index, heat_values,
                   heat_cells, solution, temperatures_grid, cable_temperatures,
                   updated, outer_converged, solver_converged, total_iterations,
                   solves, progress, result>>

\* analyzer.py 136-230: the system is assembled, the solver chosen, the loop
\* state initialised and progress 0.0 reported
AssembleWith(cb) ==
    /\ UNCHANGED notFemVars
    /\ pc = "start"
    /\ IsNone(ValidationError(mesh))
    /\ heat_values' = InitialHeatValues(loads)
    /\ heat_cells' = Uniform(Ny(mesh) - 1, Nx(mesh) - 1, 0)
    /\ robin_nodes' = RobinNodes(mesh, cfg)
    /\ direct_solver' = HasDirectSolver(mesh, cfg)
    /\ temperatures_grid' = Uniform(Ny(mesh), Nx(mesh), cfg.ambient_temp_c)
    /\ cable_temperatures' = <<>>
    /\ outer_converged' = FALSE
    /\ solver_converged' = TRUE
    /\ total_iterations' = 0
    /\ outer_index' = 0
    /\ Report(cb, 0, 1)
    /\ pc' = "iter_begin"
    /\ UNCHANGED <<mesh, loads, cfg, error, solution, updated, solves, result>>

\* analyzer.py 232-249: start-of-iteration report, heat cells, load vector
IterBeginWith(cb) ==
    /\ UNCHANGED notFemVars
    /\ pc = "iter_begin"
    /\ Report(cb, outer_index, TotalOuter(cfg))
    /\ heat_cells' = PopulateHeatCells(mesh, heat_values)
    /\ pc' = "linear_solve"
    /\ UNCHANGED <<mesh, loads, cfg, error, robin_nodes, direct_solver, outer_index,
                   heat_values, solution, temperatures_grid, cable_temperatures,
                   updated, outer_converged, solver_converged, total_iterations,
                   solves, result>>

\* analyzer.py 251-255, 299-306: the direct solver
SolveDirect ==
    /\ UNCHANGED notFemVars
    /\ pc = "linear_solve"
    /\ direct_solver
    /\ solves' = solves + 1
    /\ solution' \in Solutions(mesh, cfg, heat_values)
    /\ temperatures_grid' = Reshape(mesh, solution')
    /\ solver_converged' = (solver_converged /\ TRUE)
    /\ total_iterations' = total_iterations + 1
    /\ pc' = "iter_end"
    /\ UNCHANGED <<mesh, loads, cfg, error, robin_nodes, direct_solver, outer_index,
                   heat_values, heat_cells, cable_temperatures, updated,
                   outer_converged, progress, result>>

\* analyzer.py 256-306: conjugate gradients, with the spsolve fallback
SolveCg ==
    /\ UNCHANGED notFemVars
    /\ pc = "linear_solve"
    /\ ~direct_solver
    /\ \E o \in CgOutcomes(cfg) :
          /\ o.info >= 0
          /\ solver_converged' = (solver_converged /\ SolveConverged(mesh, o))
          /\ total_iterations' = total_iterations + IterationsThis(mesh, cfg, o)
    /\ solves' = solves + 1
    /\ solution' \in Solutions(mesh, cfg, heat_values)
    /\ temperatures_grid' = Reshape(mesh, solution')
    /\ pc' = "iter_end"
    /\ UNCHANGED <<mesh, loads, cfg, error, robin_nodes, direct_solver, outer_index,
                   heat_values, heat_cells, cable_temperatures, updated,
                   outer_converged, progress, result>>

\* analyzer.py 282-283: cg reports a breakdown
SolveCgFails ==
    /\ UNCHANGED notFemVars
    /\ pc = "linear_solve"
    /\ ~direct_solver
    /\ \E o \in CgOutcomes(cfg) : o.info < 0
    /\ solves' = solves + 1
    /\ pc' = "raised"
    /\ error' = Some("RuntimeError: conjugate gradient")
    /\ UNCHANGED <<mesh, loads, cfg, robin_nodes, direct_solver, outer_index, heat_values,
                   heat_cells, solution, temperatures_grid, cable_temperatures,
                   updated, outer_converged, solver_converged, total_iterations,
                   progress, result>>

\* variant: an exit test that ignores the outcome of the heat update
LoopBreaksSimplifiedOnly(c, upd) == c.simplified_constant_rho

\* the loop's exit test after the body (analyzer.py 324-326 and the range)
LoopBreaks(c, upd) == c.simplified_constant_rho \/ ~upd

\* analyzer.py 307-326: summaries, heat update, end-of-iteration report,
\* loop exit or next iteration
IterEndWith(cb) ==
    LET ct == SummariseCableTemperatures(mesh, temperatures_grid, loads)
        upd == IF cfg.simplified_constant_rho THEN FALSE
               ELSE HeatUpdated(heat_values, loads, ct, HeatTolerance(cfg))
    IN  /\ UNCHANGED notFemVars
        /\ pc = "iter_end"
        /\ cable_temperatures' = ct
        /\ heat_values' =
              IF cfg.simplified_constant_rho THEN heat_values
              ELSE UpdateHeatValues(heat_values, loads, ct, HeatTolerance(cfg))
        /\ updated' = upd
        /\ Report(cb, outer_index + 1, TotalOuter(cfg))
        /\ IF LoopBreaks(cfg, upd)
           THEN /\ outer_converged' = TRUE
                /\ outer_index' = outer_index
                /\ pc' = "finish"
           ELSE /\ outer_converged' = outer_converged
                /\ IF outer_index + 1 < TotalOuter(cfg)
                   THEN outer_index' = outer_index + 1 /\ pc' = "iter_begin"
                   ELSE outer_index' = outer_index /\ pc' = "finish"
        /\ UNCHANGED <<mesh, loads, cfg, error, robin_nodes, direct_solver, heat_cells,
                       solution, temperatures_grid, solver_converged,
                       total_iterations, solves, result>>

\* variant: a flag that reports the linear solves alone
ConvergedSolverOnly(solver_ok, outer_ok) == solver_ok

\* CableFemResult.converged (analyzer.py 350)
Converged(solver_ok, outer_ok) == solver_ok /\ outer_ok

\* analyzer.py 328-355: final report and the result object
FinishWith(cb) ==
    /\ UNCHANGED notFemVars
    /\ pc = "finish"
    /\ Report(cb, 1, 1)
    /\ result' = Some(
          [grid_x_mm |-> mesh.x_nodes_mm,
           grid_y_mm |-> mesh.y_nodes_mm,
           temperatures_c |-> temperatures_grid,
           max_temp_c |-> SeqMax(Flatten(temperatures_grid)),
           min_temp_c |-> SeqMin(Flatten(temperatures_grid)),
           cable_temperatures |-> cable_temperatures,
           iterations |-> total_iterations,
           converged |-> Converged(solver_converged, outer_converged),
           heat_w_per_m |-> heat_values])
    /\ pc' = "done"
    /\ UNCHANGED <<mesh, loads, cfg, error, robin_nodes, direct_solver, outer_index,
                   heat_values, heat_cells, solution, temperatures_grid,
                   cable_temperatures, updated, outer_converged,
                   solver_converged, total_iterations, solves>>

Assemble == AssembleWith(cfg.progress_callback) /\ NoCallback
IterBegin == IterBeginWith(cfg.progress_callback) /\ NoCallback
IterEnd == IterEndWith(cfg.progress_callback) /\ NoCallback
Finish == FinishWith(cfg.progress_callback) /\ NoCallback

Next ==
    \/ ValidateFail
    \/ Assemble
    \/ IterBegin
    \/ SolveDirect
    \/ SolveCg
    \/ SolveCgFails
    \/ IterEnd
    \/ Finish

Spec == Init /\ [][Next]_vars


--------------------------------------------------------------------------
(* Fixed-point arithmetic of the ampacity calculator *)

\* a / b rounded away from zero: 0 only for a = 0 (and, as a convention
\* for the sites that report a zero divisor, for b = 0)
Quot(a, b) ==
    IF b = 0 THEN 0
    ELSE LET q == (Abs(a) + Abs(b) - 1) \div Abs(b)
         IN  IF (a < 0) = (b < 0) THEN q ELSE 0 - q

\* product of two non-negative values in thousandths, the larger one split
\* to keep the intermediate products small
MulAbs(x, y) ==
    IF x >= y THEN (x \div 1000) * y + Quot((x % 1000) * y, 1000)
    ELSE (y \div 1000) * x + Quot((y % 1000) * x, 1000)

\* product of two values in thousandths, rounded away from zero
Mul(a, b) ==
    IF (a < 0) = (b < 0) THEN MulAbs(Abs(a), Abs(b)) ELSE 0 - MulAbs(Abs(a), Abs(b))

\* math.sqrt on integers: the least k with k * k >= x
RECURSIVE SqrtSearch(_, _, _)
SqrtSearch(x, lo, hi) ==
    IF lo >= hi THEN lo
    ELSE LET mid == (lo + hi) \div 2
         IN  IF mid * mid >= x THEN SqrtSearch(x, lo, mid)
             ELSE SqrtSearch(x, mid + 1, hi)

Sqrt(x) == IF x <= 0 THEN 0 ELSE SqrtSearch(x, 1, Min2(x, 46340))

\* math.hypot of two lengths in mm
Hypot(dx, dy) == Sqrt(dx * dx + dy * dy)

\* math.log for 1 <= x < 2, in thousandths: 2 atanh((x - 1) / (x + 1))
LnSeries(x) ==
    LET z == ((x - 1000) * 1000) \div (x + 1000)
        z3 == (z * z * z) \div 1000000
        z5 == (z3 * z * z) \div 1000000
    IN  2 * z + (2 * z3) \div 3 + (2 * z5) \div 5

\* math.log reduced to [1, 2) by halving and doubling (ln 2 = 0.693)
RECURSIVE LnReduce(_)
LnReduce(x) ==
    IF x >= 2000 THEN 693 + LnReduce(x \div 2)
    ELSE IF x < 1000 THEN LnReduce(2 * x) - 693
    ELSE LnSeries(x)

\* math.log of a positive value, thousandths in and out, with the sign of
\* the exact logarithm
Ln(x) ==
    IF x <= 0 THEN 0
    ELSE IF x > 1000 THEN Max2(1, LnReduce(x))
    ELSE IF x = 1000 THEN 0
    ELSE Min2(0 - 1, LnReduce(x))

\* math.exp for a small exponent, thousandths in and out
Exp(t) == Max2(1, 1000 + t + Quot(t * t, 2000) + Quot(Mul(t, t) * t, 6000))

\* (rho / (2 pi)) * value, all in thousandths
OverTwoPi(rho, value) == Quot(rho * value, 6283)

\* the outcome of a helper: its return value, the issues it appended, and
\* whether it evaluated a log, a root or a division outside the domain
Ret(value, new_issues, domain_error) ==
    [value |-> value, issues |-> new_issues, raised |-> domain_error]

--------------------------------------------------------------------------
(* Cable systems (model/cable_system.py) *)

\* LayerSpec with its material's thermal and electrical resistivity
LayerSpec(role, thickness_mm, thermal_override, material_thermal, material_electrical) ==
    [role |-> role, thickness_mm |-> thickness_mm,
     thermal_resistivity_override_k_m_per_w |-> thermal_override,
     material_thermal |-> material_thermal,
     material_electrical |-> material_electrical]

\* LayerSpec.thermal_resistivity
ThermalResistivity(layer) ==
    IF ~IsNone(layer.thermal_resistivity_override_k_m_per_w)
    THEN layer.thermal_resistivity_override_k_m_per_w
    ELSE layer.material_thermal

\* ConductorSpec; alpha is the material's temp_coefficient_per_c
ConductorSpec(area_mm2, diameter_mm, override, material_electrical, alpha) ==
    [area_mm2 |-> area_mm2, diameter_mm |-> diameter_mm,
     electrical_resistivity_override_ohm_mm2_per_m |-> override,
     material_electrical |-> material_electrical,
     temp_coefficient_per_c |-> alpha]

\* ConductorSpec.electrical_resistivity
ElectricalResistivity(conductor) ==
    IF ~IsNone(conductor.electrical_resistivity_override_ohm_mm2_per_m)
    THEN conductor.electrical_resistivity_override_ohm_mm2_per_m
    ELSE conductor.material_electrical

CablePhase(conductor, layers) == [conductor |-> conductor, layers |-> layers]

\* CablePhase.radial_profile_mm: <<layer, inner_radius_mm, outer_radius_mm>>
RECURSIVE ProfileFrom(_, _)
ProfileFrom(layers, radius) ==
    IF layers = <<>> THEN <<>>
    ELSE <<<<Head(layers), radius, radius + Head(layers).thickness_mm>>>>
         \o ProfileFrom(Tail(layers), radius + Head(layers).thickness_mm)

RadialProfile(phase) == ProfileFrom(phase.layers, Quot(phase.conductor.diameter_mm, 2))

\* CablePhase.overall_diameter_mm
OverallDiameter(phase) ==
    2 * (Quot(phase.conductor.diameter_mm, 2)
         + SeqSum([k \in 1..Len(phase.layers) |-> phase.layers[k].thickness_mm]))

\* CablePhase.get_layer
GetLayer(phase, role) ==
    LET hits == SelectSeq(phase.layers, LAMBDA l : l.role = role)
    IN  IF hits = <<>> THEN None ELSE Some(Head(hits))

\* DuctSpecification with its material and the contact constants in force
DuctSpecification(rho, metallic, inner_mm, wall_mm, occupancy, u, v, y, medium) ==
    [material_thermal |-> rho, is_metallic |-> metallic,
     inner_diameter_mm |-> inner_mm, wall_thickness_mm |-> wall_mm,
     occupancy |-> occupancy,
     contact |-> [u |-> u, v |-> v, y |-> y],
     medium_temperature_c |-> medium]

\* DuctSpecification.outer_diameter_mm
DuctOuterDiameter(duct) ==
    Max2(duct.inner_diameter_mm + 2 * duct.wall_thickness_mm, 0)

\* DuctSpecification.equivalent_cable_diameter_mm
EquivalentCableDiameter(duct, cable_diameter_mm) ==
    IF duct.occupancy = "three_phases_per_duct"
    THEN Quot(215 * cable_diameter_mm, 100)
    ELSE cable_diameter_mm

\* DuctSpecification.has_valid_geometry
HasValidGeometry(duct) ==
    duct.inner_diameter_mm > 0 /\ DuctOuterDiameter(duct) > duct.inner_diameter_mm

\* DuctContactConstants.denominator: 0.1 * (v + y * medium_temp_c)
ContactDenominator(contact, medium_temp_c) ==
    Quot(contact.v + contact.y * medium_temp_c, 10)

CableSystem(id, kind, spacing, arrangement, phase, multicore_outer, duct) ==
    [identifier |-> id, kind |-> kind, phase_spacing_mm |-> spacing,
     arrangement |-> arrangement, single_core_phase |-> phase,
     multicore_outer_diameter_mm |-> multicore_outer, duct |-> duct]

\* CableSystem.phase_offsets_mm
PhaseOffsets(system) ==
    LET spacing == system.phase_spacing_mm
        arrangement == IF IsNone(system.arrangement) THEN "flat"
                       ELSE Val(system.arrangement)
    IN  IF system.kind = "single_core"
        THEN IF arrangement = "flat"
             THEN << <<0 - spacing, 0>>, <<0, 0>>, <<spacing, 0>> >>
             ELSE << <<0, 0 - Quot(2 * spacing, 3)>>,
                     <<0 - Quot(spacing, 2), Quot(spacing * 19245, 100000)>>,
                     <<Quot(spacing, 2), Quot(spacing * 19245, 100000)>> >>
        ELSE << <<0, 0>> >>

--------------------------------------------------------------------------
(* CableAmpacityCalculator: instances and helpers *)

TrenchLayer(kind, thickness_mm, rho) ==
    [kind |-> kind, thickness_mm |-> thickness_mm,
     thermal_resistivity_k_m_per_w |-> rho]

SceneConfig(layers, trench_width_mm, surface_level_y) ==
    [layers |-> layers, trench_width_mm |-> trench_width_mm,
     surface_level_y |-> surface_level_y]

CalculatorParams(ambient, conductor, wd, sheath, armour, loaded) ==
    [ambient_temp_c |-> ambient, conductor_temp_c |-> conductor,
     dielectric_loss_w_per_m |-> wd, sheath_loss_factor |-> sheath,
     armour_loss_factor |-> armour, loaded_conductors |-> loaded]

\* _outer_diameter_mm
OuterDiameterOf(system) ==
    IF system.kind = "single_core" /\ ~IsNone(system.single_core_phase)
    THEN Some(OverallDiameter(Val(system.single_core_phase)))
    ELSE IF system.kind = "multicore" /\ ~IsNone(system.multicore_outer_diameter_mm)
    THEN system.multicore_outer_diameter_mm
    ELSE None

\* the CablePhaseInstance objects _collect_cable_instances makes for one
\* scene item: a system placed at pos
InstancesOf(system, pos) ==
    LET offsets == PhaseOffsets(system)
    IN  [k \in 1..Len(offsets) |->
            [system |-> system,
             phase_index |-> k - 1,
             label |-> <<system.identifier, k - 1>>,
             position_mm |-> <<pos[1] + offsets[k][1], pos[2] + offsets[k][2]>>,
             outer_diameter_mm |-> OuterDiameterOf(system)]]

\* _collect_cable_instances over the scene's items, each <<system, pos>>
RECURSIVE CollectCableInstances(_)
CollectCableInstances(items) ==
    IF items = <<>> THEN <<>>
    ELSE InstancesOf(Head(items)[1], Head(items)[2])
         \o CollectCableInstances(Tail(items))

\* "instance.outer_diameter_mm or self._outer_diameter_mm(system)"
OuterDiameterOr(instance) ==
    IF ~IsNone(instance.outer_diameter_mm) /\ Val(instance.outer_diameter_mm) # 0
    THEN instance.outer_diameter_mm
    ELSE OuterDiameterOf(instance.system)

\* _soil_layer_for_depth
RECURSIVE SoilLayerWalk(_, _)
SoilLayerWalk(layers, remaining) ==
    IF Len(layers) = 1 THEN Head(layers)
    ELSE IF remaining <= Max2(Head(layers).thickness_mm, 0) THEN Head(layers)
    ELSE SoilLayerWalk(Tail(layers), remaining - Max2(Head(layers).thickness_mm, 0))

SoilLayerForDepth(layers, depth_mm) ==
    IF layers = <<>> THEN None ELSE Some(SoilLayerWalk(layers, depth_mm))

\* _find_adjacent_soil_layer: the layer after, else the one before, the
\* first occurrence of target, if it is not concrete and has a resistivity
FindAdjacentSoilLayer(layers, target) ==
    LET index == CHOOSE k \in 1..Len(layers) :
                     layers[k] = target /\ \A h \in 1..(k - 1) : layers[h] # target
        usable(k) == /\ k \in 1..Len(layers)
                     /\ layers[k].kind # "concrete"
                     /\ layers[k].thermal_resistivity_k_m_per_w > 0
    IN  IF ~(\E k \in 1..Len(layers) : layers[k] = target) THEN None
        ELSE IF usable(index + 1) THEN Some(layers[index + 1])
        ELSE IF usable(index - 1) THEN Some(layers[index - 1])
        ELSE None

\* _determine_environment
DetermineEnvironment(system, depth_mm, soil_layer) ==
    IF depth_mm <= 0 THEN "AIR"
    ELSE IF ~IsNone(system.duct) /\ HasValidGeometry(Val(system.duct))
    THEN IF ~IsNone(soil_layer) /\ Val(soil_layer).kind = "concrete"
         THEN "CONCRETE_DUCT" ELSE "DUCT"
    ELSE IF ~IsNone(soil_layer) /\ Val(soil_layer).kind = "air" THEN "AIR"
    ELSE IF ~IsNone(soil_layer) /\ Val(soil_layer).kind = "concrete" THEN "TROUGH"
    ELSE "SOIL"

\* _sheath_category
SheathCategory(system) ==
    LET phase == IF system.kind = "single_core" THEN system.single_core_phase
                 ELSE None
        is_metallic(role) ==
            LET layer == GetLayer(Val(phase), role)
            IN  /\ ~IsNone(layer)
                /\ ~IsNone(Val(layer).material_electrical)
                /\ Val(Val(layer).material_electrical) > 0
                /\ Val(Val(layer).material_electrical) < 1000
    IN  IF IsNone(phase) THEN "non_metallic"
        ELSE IF is_metallic("sheath") \/ is_metallic("armour") THEN "metallic"
        ELSE "non_metallic"

\* _find_layer_index: the 1-based position of the first layer with the role
FindLayerIndex(profile, role) ==
    LET hits == { k \in 1..Len(profile) : profile[k][1].role = role }
    IN  IF hits = {} THEN None
        ELSE Some(CHOOSE k \in hits : \A h \in hits : k <= h)

\* variant: a slice that takes the element at its upper bound as well
SliceThroughEnd(seq, a, b) ==
    IF b < a THEN <<>> ELSE SubSeq(seq, a + 1, Min2(b + 1, Len(seq)))

\* profile[a:b] for 0-based Python bounds
Slice(seq, a, b) ==
    IF b <= a THEN <<>> ELSE SubSeq(seq, a + 1, Min2(b, Len(seq)))

\* _mutual_factor from the k-th member of the population on; target is the
\* index of the target instance, skip the identifier of skip_system or <<>>
RECURSIVE MutualFrom(_, _, _, _, _, _)
MutualFrom(k, target, population, surface_level_y, skip, product) ==
    IF k > Len(population) THEN Ret(product, <<>>, FALSE)
    ELSE LET other == population[k]
             xp == population[target].position_mm[1]
             yp == population[target].position_mm[2]
             mirror_y == 2 * surface_level_y - yp
             xo == other.position_mm[1]
             yo == other.position_mm[2]
             direct == Hypot(xp - xo, yp - yo)
             image_distance == Hypot(xp - xo, mirror_y - yo)
             rest(p) == MutualFrom(k + 1, target, population, surface_level_y, skip, p)
         IN  IF k = target THEN rest(product)
             ELSE IF ~IsNone(skip) /\ other.system.identifier = Val(skip)
             THEN rest(product)
             ELSE IF direct <= 0 THEN rest(product)
             ELSE IF image_distance <= 0
             THEN LET r == rest(product)
                  IN  Ret(r.value, <<"Image distance invalid.">> \o r.issues, r.raised)
             ELSE LET r == rest(Quot(product * image_distance, direct))
                  IN  Ret(r.value, r.issues, r.raised \/ direct = 0)

MutualFactor(target, population, surface_level_y, skip) ==
    MutualFrom(1, target, population, surface_level_y, skip, 1000)

MissingResistivity(label) ==
    IF label = "T1" THEN "T1: Missing thermal resistivity."
    ELSE IF label = "T2" THEN "T2: Missing thermal resistivity."
    ELSE "T3: Missing thermal resistivity."

\* math.log(outer_m / inner_m) in _sum_layer_resistances, inner_m being
\* 1e-9 for a non-positive inner radius (ln 1e6 = 13.816)
LayerLog(inner_radius, outer_radius) ==
    IF inner_radius > 0 THEN Ln(Quot(outer_radius * 1000, inner_radius))
    ELSE Ln(outer_radius * 1000) + 13816

\* the layers _sum_layer_resistances passes over ("continue"): no thickness,
\* or an outer radius not above the inner one taken as 1e-9 m
SkipLayerByRadiiOnly(inner_radius, outer_radius) == outer_radius <= inner_radius

SkipLayer(inner_radius, outer_radius) ==
    \/ outer_radius <= inner_radius
    \/ (inner_radius <= 0 /\ outer_radius <= 0)

\* _sum_layer_resistances over the remaining layers, total so far
RECURSIVE SumLayersFrom(_, _, _)
SumLayersFrom(layers, label, total) ==
    IF layers = <<>> THEN Ret(Some(total), <<>>, FALSE)
    ELSE LET rho == ThermalResistivity(Head(layers)[1])
             inner_radius == Head(layers)[2]
             outer_radius == Head(layers)[3]
         IN  IF IsNone(rho) \/ (~IsNone(rho) /\ Val(rho) <= 0)
             THEN Ret(None, <<MissingResistivity(label)>>, FALSE)
             ELSE IF SkipLayer(inner_radius, outer_radius)
             THEN SumLayersFrom(Tail(layers), label, total)
             ELSE LET r == SumLayersFrom(
                              Tail(layers), label,
                              total + OverTwoPi(Val(rho),
                                                LayerLog(inner_radius, outer_radius)))
                  IN  Ret(r.value, r.issues, r.raised \/ outer_radius <= 0)

SumLayerResistances(layers, label) ==
    IF layers = <<>> THEN Ret(Some(0), <<>>, FALSE)
    ELSE SumLayersFrom(layers, label, 0)

\* _conductor_resistance, in micro-ohm per metre
ConductorResistance(system, conductor_temp_c) ==
    IF system.kind # "single_core" \/ IsNone(system.single_core_phase)
    THEN Ret(None, <<"Ampacity calculator currently supports single-core systems only.">>,
             FALSE)
    ELSE LET conductor == Val(system.single_core_phase).conductor
             area == Max2(conductor.area_mm2, 0)
             resistivity == ElectricalResistivity(conductor)
             alpha == IF IsNone(conductor.temp_coefficient_per_c) THEN 0
                      ELSE Val(conductor.temp_coefficient_per_c)
             rho_theta == Quot(Val(resistivity)
                                 * (1000 + alpha * (conductor_temp_c - 20)), 1000)
             r == Quot(rho_theta, area)
         IN  IF area <= 0 THEN Ret(None, <<"Conductor area must be positive.">>, FALSE)
             ELSE IF IsNone(resistivity)
             THEN Ret(None, <<"Conductor electrical resistivity unavailable.">>, FALSE)
             ELSE IF r <= 0
             THEN Ret(None, <<"Computed conductor resistance is non-positive.">>,
                      area = 0)
             ELSE Ret(Some(r), <<>>, area = 0)

\* _radial_resistances: the values T1, T2, T3 and the issues appended
RadialResistances(system) ==
    IF system.kind # "single_core" \/ IsNone(system.single_core_phase)
    THEN [t1 |-> None, t2 |-> None, t3 |-> None, issues |-> <<>>, raised |-> FALSE]
    ELSE LET profile == RadialProfile(Val(system.single_core_phase))
             sheath_index == FindLayerIndex(profile, "sheath")
             armour_index == FindLayerIndex(profile, "armour")
             layers_before_sheath ==
                 IF ~IsNone(sheath_index)
                 THEN Slice(profile, 0, Val(sheath_index) - 1)
                 ELSE profile
             r1 == SumLayerResistances(layers_before_sheath, "T1")
             has_t2 == ~IsNone(sheath_index) /\ ~IsNone(armour_index)
             r2 == IF has_t2
                   THEN SumLayerResistances(
                            Slice(profile, Val(sheath_index) - 1, Val(armour_index) - 1),
                            "T2")
                   ELSE Ret(Some(0), <<>>, FALSE)
             t3_layers ==
                 IF IsNone(sheath_index) THEN <<>>
                 ELSE IF IsNone(armour_index)
                 THEN Slice(profile, Val(sheath_index) - 1, Len(profile))
                 ELSE Slice(profile, Val(armour_index) - 1, Len(profile))
             r3 == SumLayerResistances(t3_layers, "T3")
         IN  IF profile = <<>>
             THEN [t1 |-> None, t2 |-> None, t3 |-> None,
                   issues |-> <<"Cable phase layers unavailable.">>, raised |-> FALSE]
             ELSE [t1 |-> r1.value, t2 |-> r2.value, t3 |-> r3.value,
                   issues |-> r1.issues \o r2.issues \o r3.issues,
                   raised |-> r1.raised \/ r2.raised \/ r3.raised]

--------------------------------------------------------------------------
(* CableAmpacityCalculator: the external resistance T4 *)

\* _buried_medium_resistance
BuriedMediumResistance(outer_diameter_mm, depth_mm, soil_resistivity, target, population, surface_level_y, skip) ==
    LET u == Quot(2000 * depth_mm, outer_diameter_mm)
        base_term == IF u > 10000 THEN 2 * u ELSE u + Sqrt(u * u - 1000000)
        root_error == u <= 10000 /\ u * u - 1000000 < 0
        Medium(mutual, log_arg) ==
            IF log_arg <= 0
            THEN Ret(None, mutual.issues \o <<"Invalid logarithm argument for T4.">>,
                     outer_diameter_mm = 0 \/ root_error \/ mutual.raised)
            ELSE Ret(Some(OverTwoPi(soil_resistivity, Ln(log_arg))), mutual.issues,
                     outer_diameter_mm = 0 \/ root_error \/ mutual.raised
                         \/ log_arg <= 0)
        WithMutual(mutual) == Medium(mutual, Mul(base_term, mutual.value))
    IN  IF depth_mm <= 0
        THEN Ret(None, <<"Cable axis must be below surface for T4.">>, FALSE)
        ELSE IF outer_diameter_mm <= 0
        THEN Ret(None, <<"Outer diameter required for T4.">>, FALSE)
        ELSE IF u <= 1000
        THEN Ret(None, <<"Depth-to-diameter ratio too small for T4.">>,
                 outer_diameter_mm = 0)
        ELSE WithMutual(MutualFactor(target, population, surface_level_y, skip))

\* the least distance between two phase offsets
MinSpacing(offsets) ==
    LET pairs == { <<a, b>> \in (1..Len(offsets)) \X (1..Len(offsets)) : a < b }
        dist(p) == Hypot(offsets[p[1]][1] - offsets[p[2]][1],
                         offsets[p[1]][2] - offsets[p[2]][2])
    IN  dist(CHOOSE p \in pairs : \A q \in pairs : dist(p) <= dist(q))

\* _grouped_direct_burial_resistance; u in thousandths
GroupedDirectBurialResistance(system, soil_resistivity, u, outer_diameter_mm) ==
    LET arrangement == IF IsNone(system.arrangement) THEN "flat"
                       ELSE Val(system.arrangement)
        offsets == PhaseOffsets(system)
        phase_count == IF Len(offsets) = 0 THEN 1 ELSE Len(offsets)
        metallic == SheathCategory(system) = "metallic"
        apart == /\ Len(offsets) > 1
                 /\ outer_diameter_mm > 0
                 /\ 100 * MinSpacing(offsets) > 105 * outer_diameter_mm
        flat3 == Quot(475 * Ln(2 * u), 1000) - (IF metallic THEN 346 ELSE 142)
        flat2 == IF metallic THEN Quot(15 * u, 10) - 450 ELSE Quot(95 * u, 100) - 290
    IN  IF system.kind # "single_core" THEN Ret(None, <<>>, FALSE)
        ELSE IF apart THEN Ret(None, <<>>, FALSE)
        ELSE IF arrangement = "trefoil" /\ phase_count = 3
        THEN IF u <= 0
             THEN Ret(None, <<"Invalid burial ratio for trefoil grouping.">>, FALSE)
             ELSE IF metallic
             THEN IF 2 * u <= 0
                  THEN Ret(None,
                           <<"Invalid logarithm argument for trefoil metallic T4.">>,
                           FALSE)
                  ELSE Ret(Some(Quot(soil_resistivity * Ln(2 * u), 4712)
                                - Quot(63 * soil_resistivity, 100)),
                           <<>>, 2 * u <= 0)
             ELSE IF u <= 0
             THEN Ret(None, <<"Invalid burial ratio for trefoil grouping.">>, FALSE)
             ELSE Ret(Some(OverTwoPi(soil_resistivity, Ln(2 * u) + Ln(u))),
                      <<>>, 2 * u <= 0 \/ u <= 0)
        ELSE IF arrangement = "flat" /\ phase_count = 3
        THEN IF u < 5000 THEN Ret(None, <<>>, FALSE)
             ELSE IF flat3 <= 0
             THEN Ret(None, <<"Invalid logarithm argument for flat grouping T4.">>,
                      2 * u <= 0)
             ELSE Ret(Some(Mul(soil_resistivity, flat3)), <<>>, 2 * u <= 0)
        ELSE IF arrangement = "flat" /\ phase_count = 2
        THEN IF u < 5000 THEN Ret(None, <<>>, FALSE)
             ELSE IF flat2 <= 0
             THEN Ret(None, <<"Invalid logarithm argument for flat grouping T4.">>,
                      FALSE)
             ELSE Ret(Some(Quot(soil_resistivity * Ln(flat2), 3142)), <<>>, flat2 <= 0)
        ELSE Ret(None, <<>>, FALSE)

\* _t4_direct_buried
T4DirectBuried(target, population, surface_level_y, outer_diameter_mm, depth_mm, soil_resistivity) ==
    LET system == population[target].system
        u == Quot(2000 * depth_mm, outer_diameter_mm)
        zero_div == outer_diameter_mm = 0
        WithMutual(group, mutual) ==
            IF mutual.value <= 0
            THEN Ret(None,
                     group.issues \o mutual.issues
                         \o <<"Invalid logarithm argument for T4.">>,
                     zero_div \/ group.raised \/ mutual.raised)
            ELSE IF mutual.value = 1000
            THEN Ret(group.value, group.issues \o mutual.issues,
                     zero_div \/ group.raised \/ mutual.raised)
            ELSE Ret(Some(Val(group.value)
                          + OverTwoPi(soil_resistivity, Ln(mutual.value))),
                     group.issues \o mutual.issues,
                     zero_div \/ group.raised \/ mutual.raised \/ mutual.value <= 0)
        WithMedium(group, medium) ==
            Ret(medium.value, group.issues \o medium.issues,
                zero_div \/ group.raised \/ medium.raised)
        WithGroup(group) ==
            IF ~IsNone(group.value)
            THEN WithMutual(group,
                            MutualFactor(target, population, surface_level_y,
                                         Some(system.identifier)))
            ELSE WithMedium(group,
                            BuriedMediumResistance(outer_diameter_mm, depth_mm,
                                                   soil_resistivity, target, population,
                                                   surface_level_y, None))
    IN  IF soil_resistivity <= 0
        THEN Ret(None, <<"Thermal resistivity for soil layer unavailable.">>, FALSE)
        ELSE IF u <= 1000
        THEN Ret(None, <<"Depth-to-diameter ratio too small for T4.">>, zero_div)
        ELSE WithGroup(GroupedDirectBurialResistance(system, soil_resistivity, u,
                                                     outer_diameter_mm))

\* _t4_air
T4Air(depth_mm) ==
    Ret(None,
        <<"Air installation thermal resistance requires additional ambient data.">>
            \o (IF depth_mm > 0
                THEN <<"Air branch selected but cable is below surface.">>
                ELSE <<>>),
        FALSE)

\* variant: every trough is unsupported
T4TroughUnsupported(target, population, soil_layer, depth_mm, surface_level_y) ==
    Ret(None,
        <<"Open trough installations not supported; assuming ambient air cooling.">>,
        FALSE)

\* _t4_trough
T4Trough(target, population, soil_layer, depth_mm, surface_level_y) ==
    LET outer_diameter_mm == OuterDiameterOr(population[target])
        notice == "Concrete trough modelling not yet implemented; treating as direct burial."
        WithMedium(medium) ==
            Ret(medium.value, <<notice>> \o medium.issues, medium.raised)
    IN  IF IsNone(soil_layer)
        THEN Ret(None, <<"Trough installation lacks surrounding material data.">>, FALSE)
        ELSE IF Val(soil_layer).kind = "concrete"
        THEN IF IsNone(outer_diameter_mm)
                 \/ (~IsNone(outer_diameter_mm) /\ Val(outer_diameter_mm) <= 0)
             THEN Ret(None, <<notice, "Outer diameter required for trough model.">>,
                      FALSE)
             ELSE WithMedium(
                      BuriedMediumResistance(
                          Val(outer_diameter_mm), depth_mm,
                          Val(soil_layer).thermal_resistivity_k_m_per_w, target,
                          population, surface_level_y, None))
        ELSE Ret(None,
                 <<"Open trough installations not supported; assuming ambient air cooling.">>,
                 FALSE)

\* "duct.medium_temperature_c if ... is not None else params.ambient_temp_c"
MediumTemperature(duct, params) ==
    IF ~IsNone(duct.medium_temperature_c) THEN Val(duct.medium_temperature_c)
    ELSE params.ambient_temp_c

\* (rho_t / (2 pi)) * log(outer_m / inner_m) of the duct wall
DuctWall(duct) ==
    OverTwoPi(duct.material_thermal,
              Ln(Quot(1000 * DuctOuterDiameter(duct), duct.inner_diameter_mm)))

\* T4' of _t4_duct: u / (1 + denominator * equivalent_diameter_m)
DuctContactTerm(duct, equivalent_diameter_m, params) ==
    Quot(1000 * duct.contact.u,
         1000 + Mul(ContactDenominator(duct.contact, MediumTemperature(duct, params)),
                    equivalent_diameter_m))

\* T4'' of _t4_duct: nothing for a metallic duct
DuctWallTerm(duct) == IF duct.is_metallic THEN 0 ELSE DuctWall(duct)

\* t4_prime of _t4_concrete_duct: u / (denominator * equivalent_diameter_m)
ConcreteDuctContactTerm(duct, equivalent_diameter_m, params) ==
    Quot(1000 * duct.contact.u,
         Mul(ContactDenominator(duct.contact, MediumTemperature(duct, params)),
             equivalent_diameter_m))

\* duct_wall_term of _t4_concrete_duct
ConcreteDuctWallTerm(duct) == IF duct.is_metallic THEN 0 ELSE DuctWall(duct)

\* _t4_duct
T4Duct(target, population, duct, soil_resistivity, depth_mm, surface_level_y, params) ==
    LET system == population[target].system
        phase == system.single_core_phase
        cable_diameter_mm == OverallDiameter(Val(phase))
        equivalent_diameter_m == EquivalentCableDiameter(duct, cable_diameter_mm)
        contact == duct.contact
        denom == ContactDenominator(contact, MediumTemperature(duct, params))
        t4_prime == DuctContactTerm(duct, equivalent_diameter_m, params)
        prime_error == 1000 + Mul(denom, equivalent_diameter_m) = 0
        wall_error == duct.inner_diameter_mm <= 0 \/ DuctOuterDiameter(duct) <= 0
        t4_double_prime == DuctWallTerm(duct)
        WithMedium(medium) ==
            Ret(IF IsNone(medium.value) THEN None
                ELSE Some(t4_prime + t4_double_prime + Val(medium.value)),
                medium.issues,
                prime_error \/ (~duct.is_metallic /\ wall_error) \/ medium.raised)
    IN  IF depth_mm <= 0
        THEN Ret(None, <<"Cable axis must be below surface for T4.">>, FALSE)
        ELSE IF system.kind # "single_core" \/ IsNone(phase)
        THEN Ret(None, <<"Duct modelling currently supports single-core systems only.">>,
                 FALSE)
        ELSE IF cable_diameter_mm <= 0
        THEN Ret(None, <<"Cable diameter required for duct thermal model.">>, FALSE)
        ELSE IF equivalent_diameter_m <= 0
        THEN Ret(None, <<"Equivalent cable diameter for duct must be positive.">>, FALSE)
        ELSE IF contact.u <= 0
        THEN Ret(None, <<"Duct contact constant U must be positive.">>, FALSE)
        ELSE IF denom <= 0
        THEN Ret(None, <<"Duct contact denominator is non-positive.">>, FALSE)
        ELSE IF duct.inner_diameter_mm <= 0
                \/ DuctOuterDiameter(duct) <= duct.inner_diameter_mm
        THEN Ret(None, <<"Duct geometry invalid for wall thermal resistance.">>,
                 prime_error)
        ELSE IF ~duct.is_metallic /\ duct.material_thermal <= 0
        THEN Ret(None, <<"Thermal resistivity for duct material unavailable.">>,
                 prime_error)
        ELSE WithMedium(BuriedMediumResistance(DuctOuterDiameter(duct), depth_mm,
                                               soil_resistivity, target, population,
                                               surface_level_y, None))

\* _equivalent_bank_radius, metres in thousandths in and out; the flag says
\* whether a division or logarithm met a non-positive x_m
EquivalentBankRadius(x_m, y_m) ==
    LET ratio == Quot(1000 * x_m, y_m)
        slope == Quot(1000 * y_m, x_m)
        term == Quot(Mul(Mul(ratio, 1273 - ratio), Ln(1000 + Mul(slope, slope))), 2)
    IN  IF y_m = 0 \/ ratio <= 0 THEN Ret(0 - 1000, <<>>, FALSE)
        ELSE Ret(Mul(Quot(x_m, 2), Exp(term)), <<>>, x_m <= 0)

\* _t4_concrete_duct
T4ConcreteDuct(target, population, duct, soil_layer, layers, trench_width_mm, depth_mm, surface_level_y, params) ==
    LET system == population[target].system
        rho_c == Val(soil_layer).thermal_resistivity_k_m_per_w
        surrounding_soil == FindAdjacentSoilLayer(layers, Val(soil_layer))
        rho_e == IF IsNone(surrounding_soil) THEN rho_c
                 ELSE Val(surrounding_soil).thermal_resistivity_k_m_per_w
        phase == system.single_core_phase
        equivalent_diameter_m ==
            EquivalentCableDiameter(duct, OverallDiameter(Val(phase)))
        contact == duct.contact
        denom == ContactDenominator(contact, MediumTemperature(duct, params))
        t4_prime == ConcreteDuctContactTerm(duct, equivalent_diameter_m, params)
        prime_error == Mul(denom, equivalent_diameter_m) = 0
        wall_bad == duct.inner_diameter_mm <= 0
                    \/ DuctOuterDiameter(duct) <= duct.inner_diameter_mm
        duct_wall_term == ConcreteDuctWallTerm(duct)
        wall_error == /\ ~duct.is_metallic
                      /\ (duct.inner_diameter_mm <= 0 \/ DuctOuterDiameter(duct) <= 0)
        x_m == trench_width_mm
        y_m == Max2(Val(soil_layer).thickness_mm, 0)
        n_loaded == Max2(Len(PhaseOffsets(system)), 1)
        early == prime_error \/ wall_error
        Buried(r_b, u_b, sqrt_term, mutual) ==
            LET log_term == Ln(u_b + sqrt_term)
                t4_concrete == OverTwoPi(rho_c, log_term)
                delta_t4 == OverTwoPi(n_loaded * (rho_e - rho_c), log_term)
                adjustment == IF mutual.value # 1000
                              THEN OverTwoPi(rho_e, Ln(mutual.value)) ELSE 0
                late == early \/ r_b.raised \/ r_b.value = 0
                        \/ u_b * u_b - 1000000 < 0 \/ u_b + sqrt_term <= 0
                        \/ mutual.raised
            IN  IF mutual.value <= 0
                THEN Ret(None,
                         mutual.issues
                             \o <<"Invalid logarithm argument for concrete duct mutual factor.">>,
                         late)
                ELSE Ret(Some(t4_prime + duct_wall_term + t4_concrete + delta_t4
                              + adjustment),
                         mutual.issues, late \/ mutual.value <= 0)
        Bank(r_b, u_b) ==
            IF r_b.value <= 0
            THEN Ret(None, <<"Equivalent duct bank radius invalid.">>,
                     early \/ r_b.raised)
            ELSE IF u_b <= 1000
            THEN Ret(None, <<"Concrete duct bank burial ratio too small.">>,
                     early \/ r_b.raised)
            ELSE Buried(r_b, u_b, Sqrt(u_b * u_b - 1000000),
                        MutualFactor(target, population, surface_level_y,
                                     Some(system.identifier)))
        WithRadius(r_b) == Bank(r_b, Quot(1000 * depth_mm, r_b.value))
    IN  IF IsNone(soil_layer) \/ (~IsNone(soil_layer) /\ Val(soil_layer).kind # "concrete")
        THEN Ret(None, <<>>, FALSE)
        ELSE IF rho_c <= 0
        THEN Ret(None, <<"Concrete layer requires thermal resistivity.">>, FALSE)
        ELSE IF IsNone(phase)
        THEN Ret(None, <<"Concrete duct bank requires single-core phase definition.">>,
                 FALSE)
        ELSE IF equivalent_diameter_m <= 0
        THEN Ret(None, <<"Equivalent cable diameter for duct must be positive.">>, FALSE)
        ELSE IF denom <= 0
        THEN Ret(None, <<"Duct contact denominator is non-positive.">>, FALSE)
        ELSE IF ~duct.is_metallic /\ duct.material_thermal <= 0
        THEN Ret(None, <<"Thermal resistivity for duct material unavailable.">>,
                 prime_error)
        ELSE IF ~duct.is_metallic /\ wall_bad
        THEN Ret(None, <<"Duct geometry invalid for wall thermal resistance.">>,
                 prime_error)
        ELSE IF x_m <= 0 \/ y_m <= 0
        THEN Ret(None, <<"Concrete duct bank dimensions invalid.">>, early)
        ELSE IF y_m >= 3 * x_m
        THEN Ret(None,
                 <<"Concrete duct bank aspect ratio exceeds IEC correlation limit.">>,
                 early)
        ELSE WithRadius(EquivalentBankRadius(x_m, y_m))

\* _external_resistance for the target-th instance of the population
ExternalResistance(target, population, params, config) ==
    LET instance == population[target]
        system == instance.system
        surface_y == config.surface_level_y
        depth_mm == Max2(instance.position_mm[2] - surface_y, 0)
        soil_layer == SoilLayerForDepth(config.layers, depth_mm)
        resistivity == Val(soil_layer).thermal_resistivity_k_m_per_w
        environment == DetermineEnvironment(system, depth_mm, soil_layer)
        outer_diameter_mm == OuterDiameterOr(instance)
        concrete == T4ConcreteDuct(target, population, Val(system.duct), soil_layer,
                                   config.layers, config.trench_width_mm, depth_mm,
                                   surface_y, params)
        standard == T4Duct(target, population, Val(system.duct), resistivity, depth_mm,
                           surface_y, params)
        Fallback(first, second) ==
            IF ~IsNone(first.value) THEN first
            ELSE Ret(second.value, first.issues \o second.issues,
                     first.raised \/ second.raised)
    IN  IF IsNone(soil_layer) \/ (~IsNone(soil_layer) /\ resistivity <= 0)
        THEN Ret(None, <<"Thermal resistivity for soil layer unavailable.">>, FALSE)
        ELSE IF environment = "AIR" THEN T4Air(depth_mm)
        ELSE IF environment = "DUCT" THEN standard
        ELSE IF environment = "CONCRETE_DUCT"
        THEN Fallback(concrete, standard)
        ELSE IF environment = "TROUGH"
        THEN T4Trough(target, population, soil_layer, depth_mm, surface_y)
        ELSE IF IsNone(outer_diameter_mm)
                \/ (~IsNone(outer_diameter_mm) /\ Val(outer_diameter_mm) <= 0)
        THEN Ret(None, <<"Outer diameter required for T4.">>, FALSE)
        ELSE IF depth_mm <= 0
        THEN Ret(None, <<"Cable axis must be below surface for T4.">>, FALSE)
        ELSE T4DirectBuried(target, population, surface_y, Val(outer_diameter_mm),
                            depth_mm, resistivity)

--------------------------------------------------------------------------
(* CableAmpacityCalculator._compute_result *)

\* "t or 0.0"
OrZero(t) == IF IsNone(t) THEN 0 ELSE Val(t)

\* valid_inputs (ampacity_calculator.py 247-256)
ValidInputs(r, T1, T3, T4) ==
    /\ ~IsNone(r) /\ Val(r) > 0
    /\ ~IsNone(T1) /\ Val(T1) > 0
    /\ ~IsNone(T3) /\ Val(T3) >= 0
    /\ ~IsNone(T4) /\ Val(T4) > 0

\* variant: the loaded-conductor count multiplies the T1 term as well
CurrentRatingAllTermsByN(r, T1, T2, T3, T4, params) ==
    LET n == Max2(params.loaded_conductors, 1)
        num == 1000 * (params.conductor_temp_c - params.ambient_temp_c)
               - Mul(params.dielectric_loss_w_per_m,
                     Quot(OrZero(T1), 2) + n * (OrZero(T2) + OrZero(T3) + OrZero(T4)))
        den == Mul(n * OrZero(r), OrZero(T1))
               + Mul(Mul(n * OrZero(r), 1000 + params.sheath_loss_factor), OrZero(T2))
               + Mul(Mul(n * OrZero(r),
                         1000 + params.sheath_loss_factor + params.armour_loss_factor),
                     OrZero(T3) + OrZero(T4))
    IN  IF num <= 0
        THEN [value |-> None, numerator |-> num, denominator |-> den, raised |-> FALSE,
              issues |-> <<"Dielectric losses exceed allowable temperature rise.">>]
        ELSE IF den <= 0
        THEN [value |-> None, numerator |-> num, denominator |-> den, raised |-> FALSE,
              issues |-> <<"Invalid denominator for current calculation.">>]
        ELSE [value |-> Some(Sqrt(Quot(1000 * num, den))),
              numerator |-> num, denominator |-> den, raised |-> FALSE,
              issues |-> <<>>]

\* the branch "if valid_inputs and delta_theta > 0.0" (259-279): numerator in
\* thousandths of a kelvin, denominator in 1e-6 K/A^2, ampacity in ampere
CurrentRating(r, T1, T2, T3, T4, params) ==
    LET n == Max2(params.loaded_conductors, 1)
        delta_theta == params.conductor_temp_c - params.ambient_temp_c
        wd_term == Mul(params.dielectric_loss_w_per_m,
                       Quot(OrZero(T1), 2)
                       + n * (OrZero(T2) + OrZero(T3) + OrZero(T4)))
        num == 1000 * delta_theta - wd_term
        r_value == OrZero(r)
        t3_t4 == OrZero(T3) + OrZero(T4)
        den == Mul(r_value, OrZero(T1))
               + Mul(Mul(n * r_value, 1000 + params.sheath_loss_factor), OrZero(T2))
               + Mul(Mul(n * r_value,
                         1000 + params.sheath_loss_factor + params.armour_loss_factor),
                     t3_t4)
    IN  IF num <= 0
        THEN [value |-> None, numerator |-> num, denominator |-> den, raised |-> FALSE,
              issues |-> <<"Dielectric losses exceed allowable temperature rise.">>]
        ELSE IF den <= 0
        THEN [value |-> None, numerator |-> num, denominator |-> den, raised |-> FALSE,
              issues |-> <<"Invalid denominator for current calculation.">>]
        ELSE [value |-> Some(Sqrt(Quot(1000 * num, den))),
              numerator |-> num, denominator |-> den,
              raised |-> den = 0 \/ Quot(1000 * num, den) < 0,
              issues |-> <<>>]

\* the else branch (280-288)
Unavailable(r, T1, T3, T4) ==
    (IF IsNone(r) THEN <<"Conductor resistance unavailable.">> ELSE <<>>)
    \o (IF IsNone(T1) THEN <<"Insulation resistance T1 unavailable.">> ELSE <<>>)
    \o (IF IsNone(T3) THEN <<"Outer cable resistance T3 unavailable.">> ELSE <<>>)
    \o (IF IsNone(T4) THEN <<"Soil resistance T4 unavailable.">> ELSE <<>>)

\* lines 243-245 with "<" in place of "<="
DeltaThetaIssueStrict(params) ==
    IF params.conductor_temp_c - params.ambient_temp_c < 0
    THEN <<"Conductor temperature must exceed ambient.">> ELSE <<>>

\* lines 243-245
DeltaThetaIssue(params) ==
    IF params.conductor_temp_c - params.ambient_temp_c <= 0
    THEN <<"Conductor temperature must exceed ambient.">> ELSE <<>>

\* the population handed to _compute_result
Population == CollectCableInstances(amp_in.items)

\* where _compute_result goes on after a helper: an exception leaves it
After(raised, next_pc) ==
    /\ amp_raised' = raised
    /\ amp_pc' = IF raised THEN "raised" ELSE next_pc

\* line 238
ResistanceStep ==
    /\ amp_pc = "start"
    /\ \E r \in {ConductorResistance(Population[amp_in.target].system,
                                    amp_in.params.conductor_temp_c)} :
           /\ conductor_resistance' = r.value
           /\ issues' = issues \o r.issues
           /\ After(r.raised, "radial")
    /\ UNCHANGED <<amp_calls, amp_in, t1, t2, t3, t4, numerator, denominator, ampacity,
                   amp_result>>
    /\ UNCHANGED notAmpVars

\* line 239
RadialStep ==
    /\ amp_pc = "radial"
    /\ \E r \in {RadialResistances(Population[amp_in.target].system)} :
           /\ t1' = r.t1 /\ t2' = r.t2 /\ t3' = r.t3
           /\ issues' = issues \o r.issues
           /\ After(r.raised, "external")
    /\ UNCHANGED <<amp_calls, amp_in, conductor_resistance, t4, numerator, denominator, ampacity,
                   amp_result>>
    /\ UNCHANGED notAmpVars

\* line 240
ExternalStep ==
    /\ amp_pc = "external"
    /\ \E r \in {ExternalResistance(amp_in.target, Population, amp_in.params,
                                   amp_in.config)} :
           /\ t4' = r.value
           /\ issues' = issues \o r.issues
           /\ After(r.raised, "combine")
    /\ UNCHANGED <<amp_calls, amp_in, conductor_resistance, t1, t2, t3, numerator, denominator, ampacity,
                   amp_result>>
    /\ UNCHANGED notAmpVars

\* lines 242-279 when the inputs are valid and the conductor is warmer
ComputeAmpacity ==
    /\ amp_pc = "combine"
    /\ ValidInputs(conductor_resistance, t1, t3, t4)
    /\ amp_in.params.conductor_temp_c - amp_in.params.ambient_temp_c > 0
    /\ \E c \in {CurrentRating(conductor_resistance, t1, t2, t3, t4, amp_in.params)} :
           /\ numerator' = Some(c.numerator)
           /\ denominator' = Some(c.denominator)
           /\ ampacity' = IF c.raised THEN None ELSE c.value
           /\ issues' = issues \o DeltaThetaIssue(amp_in.params) \o c.issues
           /\ After(c.raised, "return")
    /\ UNCHANGED <<amp_calls, amp_in, conductor_resistance, t1, t2, t3, t4, amp_result>>
    /\ UNCHANGED notAmpVars

\* lines 242-258, 280-288 otherwise
ReportUnavailable ==
    /\ amp_pc = "combine"
    /\ ~(/\ ValidInputs(conductor_resistance, t1, t3, t4)
         /\ amp_in.params.conductor_temp_c - amp_in.params.ambient_temp_c > 0)
    /\ issues' = issues \o DeltaThetaIssue(amp_in.params)
                        \o Unavailable(conductor_resistance, t1, t3, t4)
    /\ After(FALSE, "return")
    /\ UNCHANGED <<amp_calls, amp_in, conductor_resistance, t1, t2, t3, t4, numerator, denominator,
                   ampacity, amp_result>>
    /\ UNCHANGED notAmpVars

\* lines 290-302
ReturnResult ==
    /\ amp_pc = "return"
    /\ amp_result' = Some(
          [label |-> Population[amp_in.target].label,
           position_mm |-> Population[amp_in.target].position_mm,
           conductor_resistance_ohm_per_m |-> conductor_resistance,
           t1 |-> t1, t2 |-> t2, t3 |-> t3, t4 |-> t4,
           ampacity_a |-> ampacity,
           issues |-> issues])
    /\ amp_pc' = "done"
    /\ UNCHANGED <<amp_calls, amp_in, issues, conductor_resistance, t1, t2, t3, t4, numerator,
                   denominator, ampacity, amp_raised>>
    /\ UNCHANGED notAmpVars

\* the calls of _compute_result made on one calculator instance
MaxCalls == 2

\* variant: the issue list of the previous call is kept
IssuesCarriedOver(previous) == previous

\* line 236: every call starts from its own empty issue list
IssuesAtEntry(previous) == <<>>

\* the same instance, population and parameters handed to _compute_result
\* once more (lines 229-236): the call's locals are new, the calculator and
\* the scene are the ones the previous call left
ComputeAgain ==
    /\ amp_pc = "done"
    /\ Len(amp_calls) + 1 < MaxCalls
    /\ amp_calls' = Append(amp_calls, Val(amp_result))
    /\ amp_pc' = "start"
    /\ issues' = IssuesAtEntry(issues)
    /\ conductor_resistance' = None
    /\ t1' = None /\ t2' = None /\ t3' = None /\ t4' = None
    /\ numerator' = None
    /\ denominator' = None
    /\ ampacity' = None
    /\ amp_result' = None
    /\ UNCHANGED <<amp_in, amp_raised>>
    /\ UNCHANGED notAmpVars

--------------------------------------------------------------------------
(* Inputs of _compute_result: cable systems, scenes, parameters *)

\* layer stacks after model/materials.py (XLPE 3.5, lead 19 and 0.208 ohm
\* mm2/m, PVC 5, steel armour 12 and 0.15, PE serving 3.3 K.m/W, copper 0):
\* full, plain, insulation only, sheath first, sheath or insulation without
\* thermal data, copper sheath, armour before sheath, none, armour without
\* sheath
LayerStacks ==
    LET insulation == LayerSpec("insulation", 10, None, Some(3500), None)
        override == LayerSpec("insulation", 10, Some(4000), None, None)
        lead == LayerSpec("sheath", 2, None, Some(19000), Some(208))
        pvc == LayerSpec("sheath", 3, None, Some(5000), None)
        armour == LayerSpec("armour", 3, None, Some(12000), Some(150))
        serving == LayerSpec("serving", 3, None, Some(3300), None)
    IN  << <<insulation, lead, armour, serving>>,
           <<override, pvc, serving>>,
           <<insulation>>,
           <<lead, serving>>,
           <<insulation, LayerSpec("sheath", 2, None, None, Some(208)), armour, serving>>,
           <<LayerSpec("insulation", 10, None, None, None), pvc>>,
           <<insulation, LayerSpec("sheath", 2, None, Some(0), Some(17))>>,
           <<insulation, armour, lead>>,
           <<>>,
           <<insulation, armour, serving>> >>

\* conductors: copper 100 mm2 (0.017241 ohm mm2/m in micro-ohm, 0.00393 per
\* degC rounded), an override, no area, no resistivity, a resistance that
\* falls below zero, no diameter, a negative diameter
Conductors ==
    << ConductorSpec(100, 20, None, Some(17241), Some(4)),
       ConductorSpec(100, 20, Some(28264), Some(17241), None),
       ConductorSpec(0, 20, None, Some(17241), Some(4)),
       ConductorSpec(100, 20, None, None, Some(4)),
       ConductorSpec(100, 20, None, Some(17241), Some(0 - 20)),
       ConductorSpec(100, 0, None, Some(17241), Some(4)),
       ConductorSpec(100, 0 - 20, None, Some(17241), Some(4)) >>

StandardPhase == CablePhase(Conductors[1], LayerStacks[1])
PlainPhase == CablePhase(Conductors[1], LayerStacks[2])

Phases ==
    { CablePhase(Conductors[1], LayerStacks[k]) : k \in 1..Len(LayerStacks) }
    \cup { CablePhase(Conductors[k], LayerStacks[2]) : k \in 2..Len(Conductors) }

\* ducts: HDPE (3.5 K.m/W, plastic contact constants), three phases per duct
\* without medium temperature, steel, no wall resistivity, no wall, a
\* vanishing contact denominator, no contact constant U
Ducts ==
    { Some(DuctSpecification(3500, FALSE, 100, 5, "single_phase_per_duct",
                             1870, 312, 3, Some(20))),
      Some(DuctSpecification(3500, FALSE, 150, 5, "three_phases_per_duct",
                             1870, 312, 3, None)),
      Some(DuctSpecification(0, TRUE, 100, 5, "single_phase_per_duct",
                             86, 600, 0, Some(20))),
      Some(DuctSpecification(0, FALSE, 100, 5, "single_phase_per_duct",
                             1870, 312, 3, Some(20))),
      Some(DuctSpecification(3500, FALSE, 100, 0, "single_phase_per_duct",
                             1870, 312, 3, Some(20))),
      Some(DuctSpecification(3500, FALSE, 100, 5, "single_phase_per_duct",
                             1870, 0, 0, Some(20))),
      Some(DuctSpecification(3500, FALSE, 100, 5, "single_phase_per_duct",
                             0, 312, 3, Some(20))) }

SingleCore(phase, arrangement, spacing, duct) ==
    CableSystem("S1", "single_core", spacing, arrangement, Some(phase), None, duct)

\* every phase laid flat and apart
PhaseSystems == { SingleCore(p, Some("flat"), 200, None) : p \in Phases }

\* the two reference phases in every arrangement, touching and apart
ArrangedSystems ==
    { SingleCore(p, a, s, None) :
        p \in {StandardPhase, PlainPhase},
        a \in {None, Some("flat"), Some("trefoil")},
        s \in {56, 200} }

\* systems in a duct, a multicore cable among them
DuctSystems ==
    { SingleCore(StandardPhase, Some("flat"), 200, d) : d \in Ducts }
    \cup { CableSystem("S1", "multicore", 0, None, None, Some(80), d) : d \in Ducts }

\* multicore cables and a single-core system without phase
OtherSystems ==
    { CableSystem("S1", "multicore", 0, None, None, Some(80), None),
      CableSystem("S1", "multicore", 0, None, None, None, None),
      CableSystem("S1", "single_core", 200, Some("flat"), None, None, None) }

\* scene configurations: the default trench, soil over concrete over soil,
\* concrete alone (thin, thick, without width), an air layer, a layer
\* without resistivity, no layer
SceneConfigs ==
    { SceneConfig(<<TrenchLayer("ground", 1200, 1500)>>, 1200, 0),
      SceneConfig(<<TrenchLayer("backfill", 100, 1200),
                    TrenchLayer("concrete", 600, 1000),
                    TrenchLayer("ground", 1200, 1500)>>, 1200, 0),
      SceneConfig(<<TrenchLayer("concrete", 1200, 1000)>>, 1200, 0),
      SceneConfig(<<TrenchLayer("concrete", 4000, 1000)>>, 1200, 0),
      SceneConfig(<<TrenchLayer("concrete", 1200, 1000)>>, 0, 0),
      SceneConfig(<<TrenchLayer("air", 1200, 1000)>>, 1200, 0),
      SceneConfig(<<TrenchLayer("ground", 1200, 0)>>, 1200, 0),
      SceneConfig(<<>>, 1200, 0) }

DefaultConfig == SceneConfig(<<TrenchLayer("ground", 1200, 1500)>>, 1200, 0)

\* parameters: the panel's defaults; losses; no and negative temperature
\* difference; a dielectric loss above the budget; negative loss factors;
\* no and four loaded conductors
StandardParams == CalculatorParams(20, 90, 0, 0, 0, 3)

ParamSets ==
    { StandardParams,
      CalculatorParams(20, 90, 500, 100, 50, 3),
      CalculatorParams(90, 90, 0, 0, 0, 3),
      CalculatorParams(100, 30, 0, 0, 0, 3),
      CalculatorParams(20, 90, 50000, 0, 0, 3),
      CalculatorParams(20, 90, 0, 0 - 3000, 0, 3),
      CalculatorParams(20, 90, 0, 0, 0, 0),
      CalculatorParams(20, 90, 500, 2000, 2000, 4) }

Call(items, target, params, config) ==
    [items |-> items, target |-> target, params |-> params, config |-> config]

\* the calls of _compute_result that are explored
Calls ==
    { Call(<<<<s, <<0, 300>>>>>>, 1, StandardParams, DefaultConfig) :
        s \in PhaseSystems \cup OtherSystems }
    \cup { Call(<<<<s, <<0, y>>>>>>, t, StandardParams, DefaultConfig) :
             s \in ArrangedSystems, y \in {0, 20, 70, 150, 300, 1000}, t \in {1, 2} }
    \cup { Call(<<<<s, <<0, y>>>>>>, 1, StandardParams, c) :
             s \in DuctSystems \cup {SingleCore(StandardPhase, Some("flat"), 200, None)},
             y \in {150, 1000}, c \in SceneConfigs }
    \cup { Call(<<<<SingleCore(p, Some("flat"), 200, None), <<0, 300>>>>>>, 1, q,
                DefaultConfig) :
             p \in { CablePhase(Conductors[1], LayerStacks[k]) : k \in 1..5 },
             q \in ParamSets }
    \cup { Call(<<<<SingleCore(StandardPhase, a, 56, None), <<0, 300>>>>,
                  <<CableSystem("S2", "single_core", 200, Some("flat"),
                                Some(PlainPhase), None, None), pos>>>>,
                2, StandardParams, DefaultConfig) :
             a \in {Some("flat"), Some("trefoil")},
             pos \in {<<500, 300>>, <<0, 0 - 300>>, <<0, 300>>, <<56, 300>>} }
    \cup { Call(<<<<SingleCore(StandardPhase, Some("flat"), 200, None), <<0, 300>>>>,
                  <<CableSystem("S2", "single_core", 200, Some("flat"),
                                Some(StandardPhase), None, None), <<0, 300>>>>>>,
                t, StandardParams, DefaultConfig) : t \in 1..6 }

\* a call of solve() that stays at its entry while _compute_result runs
IdleCall ==
    <<MeshOf(<<0, 10>>, <<0, 10>>, Uniform(1, 1, 1), <<<<0>>>>), <<>>,
      Config(1, FALSE, TRUE, FALSE, 8)>>

AmpInit ==
    /\ RunStart("none")
    /\ GrowthStart(IdleGrowth)
    /\ SolveStart(IdleCall)
    /\ BuildStart(IdleBuild)
    /\ PanelStart(None)
    /\ \E a \in Calls : ComputeStart(a)

AmpNext ==
    \/ ResistanceStep
    \/ RadialStep
    \/ ExternalStep
    \/ ComputeAmpacity
    \/ ReportUnavailable
    \/ ReturnResult
    \/ ComputeAgain

AmpSpec == AmpInit /\ [][AmpNext]_vars

--------------------------------------------------------------------------
(* build_structured_mesh (fem/mesh_builder.py)                            *)
(*                                                                         *)
(* Lengths are in hundredths of a millimetre and thermal resistivities in *)
(* units of 1e-5 K.m/W, so the numerical floor _MIN_RESISTIVITY is 1.     *)
(* Ratios (max_growth_ratio) are in thousandths.  A cell centre is kept   *)
(* doubled (the sum of its two nodes) so that it stays an integer; every  *)
(* comparison against it doubles the other side.  The float tolerances    *)
(* 1e-4, 1e-6 and 1e-9 mm are below one unit and compare as zero.         *)

MIN_RESISTIVITY == 1
DEFAULT_LAYER_RESISTIVITY == 100000
AIR_GAP_RESISTIVITY == 2500000

\* _clamped_resistivity
ClampedResistivity(value) ==
    IF IsNone(value) THEN None
    ELSE IF Val(value) <= 0 THEN Some(MIN_RESISTIVITY)
    ELSE value

\* "a or b" on Optional floats: None and 0.0 are falsy
PyOr(a, b) == IF IsNone(a) \/ a = Some(0) THEN b ELSE a

CableLayerRegion(name, outer_radius_mm, rho) ==
    [name |-> name, outer_radius_mm |-> outer_radius_mm,
     thermal_resistivity_k_m_per_w |-> rho]

\* _build_layers_from_phase: the regions and the <<role, thickness>> pairs
BuildLayersFromPhase(phase) ==
    LET conductor == phase.conductor
        conductor_res == ClampedResistivity(
                             PyOr(ThermalResistivity(conductor), conductor.material_thermal))
        profile == RadialProfile(phase)
        Res(layer_spec) ==
            LET first == ClampedResistivity(ThermalResistivity(layer_spec))
                second == IF IsNone(first)
                          THEN ClampedResistivity(layer_spec.material_thermal)
                          ELSE first
            IN  IF IsNone(second) THEN DEFAULT_LAYER_RESISTIVITY ELSE Val(second)
    IN  [layers |->
            <<CableLayerRegion("Conductor", Quot(conductor.diameter_mm, 2),
                               IF IsNone(conductor_res) THEN MIN_RESISTIVITY
                               ELSE Val(conductor_res))>>
            \o [k \in 1..Len(profile) |->
                  CableLayerRegion(profile[k][1].role, profile[k][3], Res(profile[k][1]))],
         thicknesses |->
            [k \in 1..Len(profile) |->
                <<profile[k][1].role, Max2(profile[k][3] - profile[k][2], 0)>>]]

\* _find_layer_thickness
FindLayerThickness(thicknesses, target) ==
    LET hits == SelectSeq(thicknesses, LAMBDA t : t[1] = target)
    IN  IF hits = <<>> THEN None
        ELSE IF Head(hits)[2] > 0 THEN Some(Head(hits)[2]) ELSE None

MeshCableDefinition(label, centre_x_mm, centre_y_mm, layers, conductor, thicknesses) ==
    [label |-> label, centre_x_mm |-> centre_x_mm, centre_y_mm |-> centre_y_mm,
     layers |-> layers,
     conductor_area_mm2 |-> conductor.area_mm2,
     insulation_thickness_mm |-> FindLayerThickness(thicknesses, "insulation"),
     layer_thicknesses_mm |-> thicknesses]

\* MeshCableDefinition.conductor_radius_mm
ConductorRadius(cable) ==
    IF cable.layers = <<>> THEN 0 ELSE cable.layers[1].outer_radius_mm

\* MeshCableDefinition.overall_radius_mm
OverallRadius(cable) ==
    IF cable.layers = <<>> THEN 0 ELSE cable.layers[Len(cable.layers)].outer_radius_mm

\* _build_cable_definition: None or the definition
BuildCableDefinition(system, label, centre_x_mm, centre_y_mm) ==
    IF system.kind = "single_core" /\ ~IsNone(system.single_core_phase)
    THEN LET built == BuildLayersFromPhase(Val(system.single_core_phase))
         IN  IF built.layers = <<>> THEN None
             ELSE Some(MeshCableDefinition(label, centre_x_mm, centre_y_mm, built.layers,
                                           Val(system.single_core_phase).conductor,
                                           built.thicknesses))
    ELSE IF system.kind = "multicore" /\ ~IsNone(system.multicore_outer_diameter_mm)
    THEN LET phase == system.multicore_phase
             built == BuildLayersFromPhase(phase)
             outer_radius == Quot(Val(system.multicore_outer_diameter_mm), 2)
             layers == IF built.layers = <<>>
                       THEN <<CableLayerRegion("Cable", outer_radius,
                                               DEFAULT_LAYER_RESISTIVITY)>>
                       ELSE built.layers
             thicknesses == IF built.layers = <<>> THEN <<<<"sheath", outer_radius>>>>
                            ELSE built.thicknesses
             last == Len(layers)
             widened == IF layers[last].outer_radius_mm < outer_radius
                        THEN [layers EXCEPT ![last].outer_radius_mm = outer_radius]
                        ELSE layers
         IN  Some(MeshCableDefinition(label, centre_x_mm, centre_y_mm, widened,
                                      phase.conductor, thicknesses))
    ELSE None

\* _phase_centres of the scene item <<system, pos>>
PhaseCentres(item) ==
    LET offsets == PhaseOffsets(item[1])
    IN  [k \in 1..Len(offsets) |-> <<item[2][1] + offsets[k][1], item[2][2] + offsets[k][2]>>]

\* _collect_cables: the definitions of every phase of every item, in order
RECURSIVE CollectCables(_)
CollectCables(items) ==
    IF items = <<>> THEN <<>>
    ELSE LET positions == PhaseCentres(Head(items))
             Label(k) == <<Head(items)[1].identifier,
                           IF Len(positions) > 1 THEN <<"A", "B", "C">>[((k - 1) % 3) + 1]
                           ELSE "">>
             built == [k \in 1..Len(positions) |->
                          BuildCableDefinition(Head(items)[1], Label(k),
                                               positions[k][1], positions[k][2])]
         IN  Flatten(built) \o CollectCables(Tail(items))

\* _duct_fill_resistivity
DuctFillResistivity(duct) ==
    IF duct.water_filled THEN duct.material_thermal
    ELSE IF duct.is_metallic THEN 100000
    ELSE AIR_GAP_RESISTIVITY

MeshDuctDefinition(centre, inner_radius, outer_radius, fill_res, wall_res) ==
    [centre_x_mm |-> centre[1], centre_y_mm |-> centre[2],
     inner_radius_mm |-> inner_radius, outer_radius_mm |-> outer_radius,
     fill_resistivity_k_m_per_w |-> fill_res, wall_resistivity_k_m_per_w |-> wall_res]

\* _collect_ducts
RECURSIVE CollectDucts(_)
CollectDucts(items) ==
    IF items = <<>> THEN <<>>
    ELSE LET system == Head(items)[1]
             rest == CollectDucts(Tail(items))
         IN  IF IsNone(system.duct) \/ ~HasValidGeometry(Val(system.duct)) THEN rest
             ELSE LET duct == Val(system.duct)
                      inner_radius == Max2(Quot(duct.inner_diameter_mm, 2), 0)
                      outer_radius == Max2(Quot(DuctOuterDiameter(duct), 2), inner_radius)
                      wall_res == Max2(duct.material_thermal, MIN_RESISTIVITY)
                      fill_res == Max2(DuctFillResistivity(duct), MIN_RESISTIVITY)
                      centres == PhaseCentres(Head(items))
                      MakeDuct(c) == MeshDuctDefinition(c, inner_radius, outer_radius,
                                                           fill_res, wall_res)
                      count == Len(centres)
                      average ==
                          <<Quot(SeqSum([k \in 1..count |-> centres[k][1]]), count),
                            Quot(SeqSum([k \in 1..count |-> centres[k][2]]), count)>>
                  IN  (IF duct.occupancy = "three_phases_per_duct"
                       THEN <<MakeDuct(average)>>
                       ELSE [k \in 1..count |-> MakeDuct(centres[k])]) \o rest

\* sorted(values)
Sorted(values) == SortSeq(values, LAMBDA a, b : a < b)

\* the concatenation of rows[lo..hi], by halves
RECURSIVE ConcatRange(_, _, _)
ConcatRange(rows, lo, hi) ==
    IF lo > hi THEN <<>>
    ELSE IF lo = hi THEN rows[lo]
    ELSE ConcatRange(rows, lo, (lo + hi) \div 2) \o ConcatRange(rows, ((lo + hi) \div 2) + 1, hi)

Concat(rows) == ConcatRange(rows, 1, Len(rows))

\* variant: nothing merged
SpacedKeepingAll(values, tolerance) == values

\* the values of a sorted sequence that exceed their predecessor by more
\* than the tolerance
Spaced(values, tolerance) ==
    LET indexed == [k \in 1..Len(values) |-> <<values[k], k>>]
        kept == SelectSeq(indexed,
                          LAMBDA p : p[2] = 1 \/ p[1] - values[p[2] - 1] > tolerance)
    IN  [k \in 1..Len(kept) |-> kept[k][1]]

\* sorted(set(values))
SortedSet(values) == Spaced(Sorted(values), 0)

\* _uniformize_axis_nodes: sort, merge the values closer than the tolerance
\* of 1e-4 mm keeping the larger, end on the largest value.  The tolerance
\* is below one unit: the values merged are the equal ones.
UniformizeAxisNodes(nodes) ==
    IF nodes = <<>> THEN <<>>
    ELSE LET sorted_nodes == Sorted(nodes)
             merged == Spaced(sorted_nodes, 0)
         IN  [merged EXCEPT ![Len(merged)] = sorted_nodes[Len(sorted_nodes)]]

\* _minimum_gap_spacing: 0.15 of the least positive clearance between two cables
MinimumGapSpacing(cable_list) ==
    LET Separation(a, b) ==
            Hypot(cable_list[a].centre_x_mm - cable_list[b].centre_x_mm,
                  cable_list[a].centre_y_mm - cable_list[b].centre_y_mm)
            - (OverallRadius(cable_list[a]) + OverallRadius(cable_list[b]))
        candidates == { Quot(Separation(a, b) * 15, 100) :
                          <<a, b>> \in { p \in (1..Len(cable_list)) \X (1..Len(cable_list)) :
                                           p[1] < p[2] /\ Separation(p[1], p[2]) > 0 } }
    IN  IF candidates = {} THEN None
        ELSE Some(CHOOSE c \in candidates : \A d \in candidates : c <= d)

\* _near_field_spacing
NearFieldSpacing(cable, gap_limit) ==
    LET conductor_diameter == IF cable.layers = <<>> THEN 0
                              ELSE cable.layers[1].outer_radius_mm * 2
        insulation == cable.insulation_thickness_mm
        thicknesses == cable.layer_thicknesses_mm
        candidates ==
            (IF conductor_diameter > 0
             THEN {Quot(conductor_diameter, 40), Quot(conductor_diameter * 31416, 960000)}
             ELSE {})
            \cup (IF ~IsNone(insulation) /\ OrZero(insulation) > 0
                  THEN {Quot(Val(insulation), 12)} ELSE {})
            \cup { Quot(thicknesses[k][2], IF thicknesses[k][1] = "insulation" THEN 12 ELSE 6) :
                     k \in { i \in 1..Len(thicknesses) : thicknesses[i][2] > 0 } }
            \cup (IF ~IsNone(gap_limit) /\ OrZero(gap_limit) > 0 THEN {Val(gap_limit)} ELSE {})
        positive == { c \in candidates : c > 0 }
    IN  IF positive = {} THEN 500
        ELSE Max2(10, CHOOSE c \in positive : \A d \in positive : c <= d)

\* _soil_spacing
SoilSpacing(cable, default_far_spacing) ==
    Max2(default_far_spacing, OverallRadius(cable))

\* the two while loops of _generate_axis_nodes for one cable: the offsets
\* from the centre at which a node is placed while the centre plus the
\* offset stays inside the bound lying room away
RECURSIVE AxisOffsets(_, _, _, _)
AxisOffsets(room, step, distance, spacing) ==
    IF distance >= room THEN <<>>
    ELSE LET next_step ==
                 IF distance < spacing.near_extent
                 THEN Min2(Quot(step * spacing.growth_factor, 1000), spacing.far_spacing)
                 ELSE Min2(Quot(step * spacing.far_growth_factor, 1000),
                           spacing.far_spacing_cap)
         IN  <<distance>> \o AxisOffsets(room, next_step, distance + next_step, spacing)

\* _generate_axis_nodes
GenerateAxisNodes(cable_list, min_bound, max_bound, axis, growth_factor, gap_limit, default_far_spacing) ==
    IF cable_list = <<>> THEN <<min_bound, max_bound>>
    ELSE LET NodesOf(cable) ==
                 LET center == IF axis = "x" THEN cable.centre_x_mm ELSE cable.centre_y_mm
                     near_spacing == NearFieldSpacing(cable, gap_limit)
                     far_spacing == Max2(SoilSpacing(cable, default_far_spacing), near_spacing)
                     spacing ==
                         [growth_factor |-> growth_factor,
                          far_growth_factor |-> Max2(Quot(growth_factor * 1300, 1000),
                                                     growth_factor + 200),
                          far_spacing |-> far_spacing,
                          near_extent |-> Max2(4 * OverallRadius(cable), 15000),
                          far_spacing_cap |-> Max2(far_spacing * 6, far_spacing)]
                     WithSpacing(near) ==
                         LET up == AxisOffsets(max_bound - center, near, near, spacing)
                             down == AxisOffsets(center - min_bound, near, near, spacing)
                         IN  <<center>>
                             \o [k \in 1..Len(up) |-> center + up[k]]
                             \o [k \in 1..Len(down) |-> center - down[k]]
                 IN  WithSpacing(near_spacing)
         IN  SortedSet(<<min_bound, max_bound>>
                       \o Concat([k \in 1..Len(cable_list) |-> NodesOf(cable_list[k])]))

\* _build_domain: <<x_nodes, y_nodes>>
BuildDomain(config, cable_list, grid_step, padding) ==
    LET half_trench_width == Max2(Quot(config.trench_width_mm, 2), 1000)
        surface_y == config.surface_level_y
        trench_depth == Max2(config.trench_depth_mm, 1000)
        radii == [k \in 1..Len(cable_list) |-> OverallRadius(cable_list[k])]
        max_radius == IF cable_list = <<>> THEN 0 ELSE SeqMax(radii)
        lateral_margin == Max2(padding, 10 * max_radius)
        vertical_margin == Max2(padding, 10 * max_radius)
        min_x == IF cable_list = <<>> THEN 0 - half_trench_width - padding
                 ELSE Min2(SeqMin([k \in 1..Len(cable_list) |->
                                      cable_list[k].centre_x_mm - radii[k]]) - lateral_margin,
                           0 - half_trench_width - padding)
        max_x == IF cable_list = <<>> THEN half_trench_width + padding
                 ELSE Max2(SeqMax([k \in 1..Len(cable_list) |->
                                      cable_list[k].centre_x_mm + radii[k]]) + lateral_margin,
                           half_trench_width + padding)
        domain_width == Max2(max_x - min_x, grid_step * 4)
        trench_span == config.trench_width_mm + 2 * padding
        target_depth == Max2(config.trench_depth_mm + padding,
                             Max2(trench_span, domain_width))
        min_y == surface_y
        max_y == IF cable_list = <<>>
                 THEN surface_y + Max2(trench_depth + padding,
                                       config.trench_width_mm + 2 * padding)
                 ELSE Max2(SeqMax([k \in 1..Len(cable_list) |->
                                      cable_list[k].centre_y_mm + vertical_margin]),
                           surface_y + target_depth)
        gap_limit == MinimumGapSpacing(cable_list)
        far_spacing == Max2(grid_step, 1000)
        bottom_trench == surface_y + trench_depth
        Contains(nodes, value) == \E k \in 1..Len(nodes) : nodes[k] = value
        AppendMissing(nodes, value) ==
            IF Contains(nodes, value) THEN nodes ELSE Append(nodes, value)
        Completed(x_nodes, y_nodes) ==
            <<UniformizeAxisNodes(x_nodes),
              UniformizeAxisNodes(AppendMissing(AppendMissing(y_nodes, surface_y),
                                                bottom_trench))>>
    IN  Completed(GenerateAxisNodes(cable_list, min_x, max_x, "x", 1200, gap_limit, far_spacing),
                  GenerateAxisNodes(cable_list, min_y, max_y, "y", 1200, gap_limit, far_spacing))

\* _relevant_y_positions: the surface, the layer interfaces, the cable centres
RelevantYPositions(config, cable_list) ==
    LET layers == config.layers
        Interface(k) ==
            config.surface_level_y
            + SeqSum([i \in 1..k |-> Max2(layers[i].thickness_mm, 0)])
    IN  <<config.surface_level_y>>
        \o [k \in 1..Len(layers) |-> Interface(k)]
        \o [k \in 1..Len(cable_list) |-> cable_list[k].centre_y_mm]

\* x_relevant of build_structured_mesh (lines 121-128)
RelevantX(cable_list, duct_list) ==
    [k \in 1..Len(cable_list) |-> cable_list[k].centre_x_mm]
    \o Flatten([k \in 1..Len(cable_list) |->
                  IF OverallRadius(cable_list[k]) > 0
                  THEN <<cable_list[k].centre_x_mm - OverallRadius(cable_list[k]),
                         cable_list[k].centre_x_mm + OverallRadius(cable_list[k])>>
                  ELSE <<>>])
    \o [k \in 1..Len(duct_list) |-> duct_list[k].centre_x_mm]
    \o Flatten([k \in 1..Len(duct_list) |->
                  <<duct_list[k].centre_x_mm - duct_list[k].outer_radius_mm,
                    duct_list[k].centre_x_mm + duct_list[k].outer_radius_mm>>])

\* y_relevant of build_structured_mesh (lines 130-143)
RelevantY(config, cable_list, duct_list) ==
    RelevantYPositions(config, cable_list)
    \o Flatten([k \in 1..Len(cable_list) |->
                  IF OverallRadius(cable_list[k]) > 0
                  THEN <<cable_list[k].centre_y_mm - OverallRadius(cable_list[k]),
                         cable_list[k].centre_y_mm + OverallRadius(cable_list[k])>>
                  ELSE <<>>])
    \o Flatten([k \in 1..Len(duct_list) |->
                  <<duct_list[k].centre_y_mm - duct_list[k].outer_radius_mm,
                    duct_list[k].centre_y_mm - duct_list[k].inner_radius_mm,
                    duct_list[k].centre_y_mm + duct_list[k].inner_radius_mm,
                    duct_list[k].centre_y_mm + duct_list[k].outer_radius_mm>>])

\* variant: a pass that keeps every interval as it is
SubdividedNowhere(k, current_nodes, relevant, growth_ratio, min_step) ==
    IF current_nodes[k + 1] - current_nodes[k] <= 0 THEN <<>>
    ELSE <<current_nodes[k + 1]>>

\* one pass of the while loop of _enforce_spacing_growth: the nodes that
\* replace the interval from node k to node k + 1; relevant is a set,
\* min_step and growth_ratio as clamped
Subdivided(k, current_nodes, relevant, growth_ratio, min_step) ==
    LET a == current_nodes[k]
        b == current_nodes[k + 1]
        interval == b - a
        distances == { Abs(a + b - 2 * ref) : ref \in relevant }
        dist == CHOOSE d \in distances : \A e \in distances : d <= e
        allowed == Max2(min_step, Quot(dist * growth_ratio, 2000))
        segments == Max2(1, (interval + allowed - 1) \div allowed)
    IN  IF interval <= 0 THEN <<>>
        ELSE IF interval <= allowed THEN <<b>>
        ELSE [idx \in 1..segments |-> a + ((interval * idx) \div segments)]

\* the number of passes of the while loop of _enforce_spacing_growth, the
\* last one, which changes nothing, included
RECURSIVE GrowthPasses(_, _, _, _)
GrowthPasses(current_nodes, relevant, growth_ratio, min_step) ==
    LET new_nodes ==
            <<current_nodes[1]>>
            \o Concat([k \in 1..(Len(current_nodes) - 1) |->
                          Subdivided(k, current_nodes, relevant, growth_ratio, min_step)])
    IN  IF new_nodes = current_nodes THEN 1
        ELSE 1 + GrowthPasses(new_nodes, relevant, growth_ratio, min_step)

RECURSIVE SubdivideUntilStable(_, _, _, _)
SubdivideUntilStable(current_nodes, relevant, growth_ratio, min_step) ==
    LET new_nodes ==
            <<current_nodes[1]>>
            \o Concat([k \in 1..(Len(current_nodes) - 1) |->
                          Subdivided(k, current_nodes, relevant, growth_ratio, min_step)])
    IN  IF new_nodes = current_nodes THEN current_nodes
        ELSE SubdivideUntilStable(new_nodes, relevant, growth_ratio, min_step)

\* _enforce_spacing_growth
EnforceSpacingGrowth(nodes, relevant_positions, growth_ratio, min_step) ==
    IF Len(nodes) < 2 THEN nodes
    ELSE IF growth_ratio <= 0 \/ relevant_positions = <<>> THEN nodes
    ELSE LET current_nodes == SortedSet(nodes)
             relevant == { relevant_positions[k] : k \in 1..Len(relevant_positions) }
                         \cup {current_nodes[1], current_nodes[Len(current_nodes)]}
         IN  SubdivideUntilStable(current_nodes, relevant, growth_ratio, Max2(min_step, 1))

\* _cell_centres, doubled: the sum of the two nodes of each cell
CellCentres(nodes) == [k \in 1..(Len(nodes) - 1) |-> nodes[k] + nodes[k + 1]]

\* the layer the for loop of _resistivity_for_depth stops at, 0 if none
RECURSIVE LayerAtDepth(_, _, _)
LayerAtDepth(layers, k, remaining) ==
    IF k > Len(layers) THEN 0
    ELSE IF remaining <= 2 * Max2(layers[k].thickness_mm, 0) THEN k
    ELSE LayerAtDepth(layers, k + 1, remaining - 2 * Max2(layers[k].thickness_mm, 0))

\* variant: the resistivity as configured, without the floor
ResistivityForDepthUnclamped(layers, depth_mm, default_resistivity) ==
    IF layers = <<>> THEN default_resistivity
    ELSE LET k == IF depth_mm < 0 THEN 1 ELSE LayerAtDepth(layers, 1, depth_mm)
             res == layers[IF k = 0 THEN Len(layers) ELSE k].thermal_resistivity_k_m_per_w
         IN  IF IsNone(res) THEN default_resistivity ELSE Val(res)

\* _resistivity_for_depth; depth_mm is doubled
ResistivityForDepth(layers, depth_mm, default_resistivity) ==
    IF layers = <<>> THEN Max2(default_resistivity, MIN_RESISTIVITY)
    ELSE LET k == IF depth_mm < 0 THEN 1 ELSE LayerAtDepth(layers, 1, depth_mm)
             res == ClampedResistivity(
                        layers[IF k = 0 THEN Len(layers) ELSE k].thermal_resistivity_k_m_per_w)
         IN  Max2(IF IsNone(res) THEN default_resistivity ELSE Val(res), MIN_RESISTIVITY)

\* _build_base_resistivity
BuildBaseResistivity(layers, x_nodes, y_nodes, surface_level_y, default_resistivity) ==
    LET y_centres == CellCentres(y_nodes)
        x_centres == CellCentres(x_nodes)
    IN  [j \in 1..Len(y_centres) |->
            LET layer_resistivity ==
                    ResistivityForDepth(layers, y_centres[j] - 2 * surface_level_y,
                                        default_resistivity)
            IN  [i \in 1..Len(x_centres) |-> layer_resistivity]]

\* the test both region loops make on cell (j, i) against a circle of
\* the given radius around centre: 2 * distance - (2 * radius + 2 * half_diag)
Clearance(x_nodes, y_nodes, j, i, centre, radius) ==
    Hypot(x_nodes[i] + x_nodes[i + 1] - 2 * centre[1],
          y_nodes[j] + y_nodes[j + 1] - 2 * centre[2])
    - (2 * radius + Hypot(x_nodes[i + 1] - x_nodes[i], y_nodes[j + 1] - y_nodes[j]))

\* x_indices / y_indices of the region loops: cells whose centre lies in
\* the bounding interval of the circle
InBox(nodes, k, centre, radius) ==
    /\ 2 * (centre - radius) <= nodes[k] + nodes[k + 1]
    /\ nodes[k] + nodes[k + 1] <= 2 * (centre + radius)

\* _apply_duct_regions for the ducts from index k on
RECURSIVE ApplyDuctRegions(_, _, _, _, _)
ApplyDuctRegions(duct_list, k, x_nodes, y_nodes, resistivity) ==
    IF k > Len(duct_list) THEN resistivity
    ELSE LET duct == duct_list[k]
             inner_radius == Max2(duct.inner_radius_mm, 0)
             outer_radius == Max2(duct.outer_radius_mm, inner_radius)
             fill_res == Max2(duct.fill_resistivity_k_m_per_w, MIN_RESISTIVITY)
             wall_res == Max2(duct.wall_resistivity_k_m_per_w, MIN_RESISTIVITY)
             centre == <<duct.centre_x_mm, duct.centre_y_mm>>
             Cell(j, i) ==
                 IF ~(InBox(x_nodes, i, centre[1], outer_radius)
                      /\ InBox(y_nodes, j, centre[2], outer_radius))
                 THEN resistivity[j][i]
                 ELSE IF Clearance(x_nodes, y_nodes, j, i, centre, outer_radius) > 0
                 THEN resistivity[j][i]
                 ELSE IF Clearance(x_nodes, y_nodes, j, i, centre, inner_radius) <= 0
                 THEN fill_res
                 ELSE wall_res
         IN  ApplyDuctRegions(duct_list, k + 1, x_nodes, y_nodes,
                              [j \in 1..Len(resistivity) |->
                                  [i \in 1..Len(resistivity[j]) |-> Cell(j, i)]])

\* variant: the layer's resistivity as configured, without the floor
RegionResistivityUnclamped(layers, radius_mm) ==
    LET inside == { k \in 1..Len(layers) : radius_mm <= 2 * layers[k].outer_radius_mm }
    IN  layers[IF inside = {} THEN Len(layers)
               ELSE CHOOSE k \in inside : \A m \in inside : k <= m].thermal_resistivity_k_m_per_w

\* _region_resistivity; radius_mm is doubled
RegionResistivity(layers, radius_mm) ==
    LET inside == { k \in 1..Len(layers) : radius_mm <= 2 * layers[k].outer_radius_mm }
        layer == layers[IF inside = {} THEN Len(layers)
                        ELSE CHOOSE k \in inside : \A m \in inside : k <= m]
    IN  Max2(layer.thermal_resistivity_k_m_per_w, MIN_RESISTIVITY)

\* the conductor-ownership test of _apply_cable_regions on cell (j, i)
OwnedBy(cable, x_nodes, y_nodes, j, i) ==
    LET centre == <<cable.centre_x_mm, cable.centre_y_mm>>
    IN  /\ cable.layers # <<>>
        /\ OverallRadius(cable) > 0
        /\ InBox(x_nodes, i, centre[1], OverallRadius(cable))
        /\ InBox(y_nodes, j, centre[2], OverallRadius(cable))
        /\ Clearance(x_nodes, y_nodes, j, i, centre, OverallRadius(cable)) <= 0
        /\ Clearance(x_nodes, y_nodes, j, i, centre, ConductorRadius(cable)) <= 0

\* _apply_cable_regions: the two arrays after the call
ApplyCableRegions(cable, x_nodes, y_nodes, resistivity, index, idx) ==
    IF cable.layers = <<>> \/ OverallRadius(cable) <= 0
    THEN [resistivity |-> resistivity, conductor_index |-> index]
    ELSE LET centre == <<cable.centre_x_mm, cable.centre_y_mm>>
             Touched(j, i) ==
                 /\ InBox(x_nodes, i, centre[1], OverallRadius(cable))
                 /\ InBox(y_nodes, j, centre[2], OverallRadius(cable))
                 /\ Clearance(x_nodes, y_nodes, j, i, centre, OverallRadius(cable)) <= 0
             Distance(j, i) == Hypot(x_nodes[i] + x_nodes[i + 1] - 2 * centre[1],
                                     y_nodes[j] + y_nodes[j + 1] - 2 * centre[2])
         IN  [resistivity |->
                 [j \in 1..Len(resistivity) |-> [i \in 1..Len(resistivity[j]) |->
                     IF Touched(j, i) THEN RegionResistivity(cable.layers, Distance(j, i))
                     ELSE resistivity[j][i]]],
              conductor_index |->
                 [j \in 1..Len(index) |-> [i \in 1..Len(index[j]) |->
                     IF OwnedBy(cable, x_nodes, y_nodes, j, i) THEN idx
                     ELSE index[j][i]]]]

--------------------------------------------------------------------------
(* build_structured_mesh as a state machine *)

\* variant: the arguments as passed
UnclampedArguments(grid_step, padding, growth_ratio) ==
    [grid_step_mm |-> grid_step, padding_mm |-> padding, max_growth_ratio |-> growth_ratio]

\* lines 110-112: the floors of 5 mm, 50 mm and 0
ClampedArguments(grid_step, padding, growth_ratio) ==
    [grid_step_mm |-> Max2(grid_step, 500), padding_mm |-> Max2(padding, 5000),
     max_growth_ratio |-> Max2(growth_ratio, 0)]

\* lines 110-112
ClampArguments ==
    /\ build_pc = "start"
    /\ \E c \in {ClampedArguments(grid_step_mm, padding_mm, max_growth_ratio)} :
           /\ grid_step_mm' = c.grid_step_mm
           /\ padding_mm' = c.padding_mm
           /\ max_growth_ratio' = c.max_growth_ratio
    /\ build_pc' = "collect"
    /\ UNCHANGED <<build_call, scene, default_resistivity_k_m_per_w, cables, ducts, x_nodes_mm,
                   y_nodes_mm, base_resistivity, conductor_index, cable_idx, build_error,
                   build_output>>
    /\ UNCHANGED notMeshVars

\* lines 114-115
CollectScene ==
    /\ build_pc = "collect"
    /\ cables' = CollectCables(scene.items)
    /\ ducts' = CollectDucts(scene.items)
    /\ build_pc' = "domain"
    /\ UNCHANGED <<build_call, scene, grid_step_mm, padding_mm, max_growth_ratio,
                   default_resistivity_k_m_per_w, x_nodes_mm, y_nodes_mm, base_resistivity,
                   conductor_index, cable_idx, build_error, build_output>>
    /\ UNCHANGED notMeshVars

\* lines 117-119: the domain, and the ValueError for a degenerate one
DomainStep ==
    /\ build_pc = "domain"
    /\ \E nodes \in {BuildDomain(scene.config, cables, grid_step_mm, padding_mm)} :
           /\ x_nodes_mm' = nodes[1]
           /\ y_nodes_mm' = nodes[2]
           /\ IF Len(nodes[1]) < 2 \/ Len(nodes[2]) < 2
              THEN /\ build_error' = Some("FEM mesh domain is degenerate; adjust grid spacing or padding.")
                   /\ build_pc' = "done"
              ELSE /\ build_error' = build_error
                   /\ build_pc' = "refine"
    /\ UNCHANGED <<build_call, scene, grid_step_mm, padding_mm, max_growth_ratio,
                   default_resistivity_k_m_per_w, cables, ducts, base_resistivity,
                   conductor_index, cable_idx, build_output>>
    /\ UNCHANGED notMeshVars

\* lines 121-158
RefineAxes ==
    /\ build_pc = "refine"
    /\ x_nodes_mm' = UniformizeAxisNodes(
                         EnforceSpacingGrowth(x_nodes_mm, RelevantX(cables, ducts),
                                              max_growth_ratio, grid_step_mm))
    /\ y_nodes_mm' = UniformizeAxisNodes(
                         EnforceSpacingGrowth(y_nodes_mm, RelevantY(scene.config, cables, ducts),
                                              max_growth_ratio, grid_step_mm))
    /\ build_pc' = "base"
    /\ UNCHANGED <<build_call, scene, grid_step_mm, padding_mm, max_growth_ratio,
                   default_resistivity_k_m_per_w, cables, ducts, base_resistivity,
                   conductor_index, cable_idx, build_error, build_output>>
    /\ UNCHANGED notMeshVars

\* lines 160-167
BaseResistivity ==
    /\ build_pc = "base"
    /\ base_resistivity' = BuildBaseResistivity(scene.config.layers, x_nodes_mm, y_nodes_mm,
                                                scene.config.surface_level_y,
                                                default_resistivity_k_m_per_w)
    /\ conductor_index' = Uniform(Len(y_nodes_mm) - 1, Len(x_nodes_mm) - 1, -1)
    /\ build_pc' = "ducts"
    /\ UNCHANGED <<build_call, scene, grid_step_mm, padding_mm, max_growth_ratio,
                   default_resistivity_k_m_per_w, cables, ducts, x_nodes_mm, y_nodes_mm,
                   cable_idx, build_error, build_output>>
    /\ UNCHANGED notMeshVars

\* lines 169-170
ApplyDucts ==
    /\ build_pc = "ducts"
    /\ base_resistivity' = ApplyDuctRegions(ducts, 1, x_nodes_mm, y_nodes_mm, base_resistivity)
    /\ cable_idx' = 0
    /\ build_pc' = "cables"
    /\ UNCHANGED <<build_call, scene, grid_step_mm, padding_mm, max_growth_ratio,
                   default_resistivity_k_m_per_w, cables, ducts, x_nodes_mm, y_nodes_mm,
                   conductor_index, build_error, build_output>>
    /\ UNCHANGED notMeshVars

\* lines 172-173: one turn of the loop over the cables
ApplyCable ==
    /\ build_pc = "cables"
    /\ cable_idx < Len(cables)
    /\ \E r \in {ApplyCableRegions(cables[cable_idx + 1], x_nodes_mm, y_nodes_mm,
                                  base_resistivity, conductor_index, cable_idx)} :
           /\ base_resistivity' = r.resistivity
           /\ conductor_index' = r.conductor_index
    /\ cable_idx' = cable_idx + 1
    /\ UNCHANGED <<build_call, scene, grid_step_mm, padding_mm, max_growth_ratio,
                   default_resistivity_k_m_per_w, cables, ducts, x_nodes_mm, y_nodes_mm,
                   build_pc, build_error, build_output>>
    /\ UNCHANGED notMeshVars

\* lines 175-182
ReturnMesh ==
    /\ build_pc = "cables"
    /\ cable_idx >= Len(cables)
    /\ build_output' = Some([mesh |-> MeshOf(x_nodes_mm, y_nodes_mm, base_resistivity,
                                             conductor_index),
                             cables |-> cables])
    /\ build_pc' = "done"
    /\ UNCHANGED <<build_call, scene, grid_step_mm, padding_mm, max_growth_ratio,
                   default_resistivity_k_m_per_w, cables, ducts, x_nodes_mm, y_nodes_mm,
                   base_resistivity, conductor_index, cable_idx, build_error>>
    /\ UNCHANGED notMeshVars

--------------------------------------------------------------------------
(* Inputs of build_structured_mesh *)

\* a conductor with its thermal resistivity (override, material)
MeshConductor(diameter_mm, thermal_override, material_thermal) ==
    [thermal_resistivity_override_k_m_per_w |-> thermal_override,
     material_thermal |-> material_thermal]
    @@ ConductorSpec(100, diameter_mm, None, Some(17), Some(4))

\* copper conductors of 20 mm and 40 mm; one whose resistivity is missing
Copper20 == MeshConductor(2000, None, Some(0))
Copper40 == MeshConductor(4000, None, Some(0))
BareConductor == MeshConductor(2000, None, None)

\* 0.2 mm jacket; 5 mm insulation under a 2 mm sheath; layers whose
\* resistivity is zero, negative or missing
ThinJacket == <<LayerSpec("jacket", 20, None, Some(350000), None)>>
Insulated == <<LayerSpec("insulation", 500, None, Some(350000), None),
               LayerSpec("sheath", 200, Some(600000), Some(350000), None)>>
OddLayers == <<LayerSpec("insulation", 300, Some(0), Some(350000), None),
               LayerSpec("sheath", 200, Some(-5), None, None),
               LayerSpec("jacket", 100, None, None, None)>>

\* a multicore cable around the phase
Multicore(id, phase, outer_diameter_mm, duct) ==
    [multicore_phase |-> phase]
    @@ CableSystem(id, "multicore", 0, None, None, Some(outer_diameter_mm), duct)

\* a duct of the mesh scenes: HDPE, water filled, steel
MeshDuct(rho, metallic, water, inner_mm, wall_mm, occupancy) ==
    Some([water_filled |-> water]
         @@ DuctSpecification(rho, metallic, inner_mm, wall_mm, occupancy, 1870, 312, 3,
                              Some(20)))

MeshConfig(layers, trench_width_mm, trench_depth_mm, surface_level_y) ==
    [trench_depth_mm |-> trench_depth_mm]
    @@ SceneConfig(layers, trench_width_mm, surface_level_y)

MeshSceneOf(items, config) == [items |-> items, config |-> config]

\* soil: none; one layer; layers with zero, negative and missing resistivity
SoilStacks ==
    << <<>>,
       <<TrenchLayer("ground", 120000, Some(150000))>>,
       <<TrenchLayer("backfill", 5000, Some(0)),
         TrenchLayer("concrete", 3000, Some(-100000)),
         TrenchLayer("ground", -10, None)>> >>

\* a trench 200 mm wide and 200 mm deep
NarrowTrench(k) == MeshConfig(SoilStacks[k], 20000, 20000, 0)

\* two jacketed cables 0.5 mm apart along the 3-4-5 diagonal
DiagonalPair ==
    << <<Multicore("M1", CablePhase(Copper40, ThinJacket), 4040, None), <<0, 10000>>>>,
       <<Multicore("M2", CablePhase(Copper40, ThinJacket), 4040, None), <<2454, 13272>>>> >>

\* the same cable twice at one place
CoincidentPair ==
    << <<Multicore("M1", CablePhase(Copper20, Insulated), 3400, None), <<0, 10000>>>>,
       <<Multicore("M2", CablePhase(Copper20, Insulated), 3400, None), <<0, 10000>>>> >>

MeshItemLists ==
    { <<>>,
      << <<Multicore("M1", CablePhase(Copper20, Insulated), 3400, None), <<0, 10000>>>> >>,
      << <<Multicore("M1", CablePhase(BareConductor, OddLayers), 3600, None), <<0, 8000>>>> >>,
      << <<Multicore("M1", CablePhase(Copper20, Insulated), 3400,
                     MeshDuct(350000, FALSE, FALSE, 6000, 300, "single_phase_per_duct")),
           <<0, 10000>>>> >>,
      << <<Multicore("M1", CablePhase(Copper20, Insulated), 3400,
                     MeshDuct(-60000, FALSE, TRUE, 6000, 300, "three_phases_per_duct")),
           <<0, 10000>>>> >>,
      << <<Multicore("M1", CablePhase(Copper20, Insulated), 3400,
                     MeshDuct(0, TRUE, FALSE, 6000, 300, "single_phase_per_duct")),
           <<0, 10000>>>> >>,
      DiagonalPair,
      CoincidentPair }

\* arguments at, below and above the floors; a zero and a negative default
Builds ==
    { [scene |-> MeshSceneOf(items, NarrowTrench(k)), grid_step_mm |-> g[1],
       padding_mm |-> g[2], max_growth_ratio |-> g[3],
       default_resistivity_k_m_per_w |-> g[4]] :
        items \in MeshItemLists, k \in 1..Len(SoilStacks),
        g \in { <<5000, 0, 500, 100000>>, <<-100, 5000, 0, 0>>, <<0, -3000, -200, -70000>> } }

MeshInit ==
    /\ RunStart("none")
    /\ GrowthStart(IdleGrowth)
    /\ SolveStart(IdleCall)
    /\ ComputeStart(<<>>)
    /\ PanelStart(None)
    /\ \E b \in Builds : BuildStart(b)

MeshNext ==
    \/ ClampArguments
    \/ CollectScene
    \/ DomainStep
    \/ RefineAxes
    \/ BaseResistivity
    \/ ApplyDucts
    \/ ApplyCable
    \/ ReturnMesh

MeshSpec == MeshInit /\ [][MeshNext]_vars

--------------------------------------------------------------------------
(* _enforce_spacing_growth called on its own *)

\* node lists: two ends, ends with inner nodes, unsorted with a repeated
\* value, a narrow domain, a single node, an axis that starts below zero
GrowthNodeLists ==
    { <<0, 20000>>, <<0, 800, 1500, 20000>>, <<12000, 0, 3000, 3000, 20000>>,
      <<0, 300>>, <<700>>, <<0 - 9000, 0 - 8800, 4000>> }

\* relevant positions: none, an end, inside, outside the domain, several
GrowthPositions ==
    { <<>>, <<0>>, <<7000>>, <<0 - 30000>>, <<1000, 1000, 15000>> }

\* ratios of 0.1, 0.5, 1.3 and 3, none, a negative one; steps of 1, 5 and
\* 50 mm and none
GrowthRatios == {100, 500, 1300, 3000, 0, 0 - 500}
GrowthSteps == {100, 500, 5000, 0}

GrowthCalls ==
    { [nodes |-> n, relevant_positions |-> r, growth_ratio |-> q, min_step |-> m] :
        n \in GrowthNodeLists, r \in GrowthPositions, q \in GrowthRatios,
        m \in GrowthSteps }

\* mesh_builder.py 736-778: the call and its return
EnforceStep ==
    /\ growth_pc = "call"
    /\ growth_call \in GrowthCalls
    /\ growth_result' = EnforceSpacingGrowth(growth_call.nodes,
                                             growth_call.relevant_positions,
                                             growth_call.growth_ratio,
                                             growth_call.min_step)
    /\ growth_pc' = "returned"
    /\ UNCHANGED growth_call
    /\ UNCHANGED notGrowthVars

GrowthInit ==
    /\ RunStart("none")
    /\ SolveStart(IdleCall)
    /\ ComputeStart(<<>>)
    /\ BuildStart(IdleBuild)
    /\ PanelStart(None)
    /\ \E g \in GrowthCalls : GrowthStart(g)

GrowthNext == EnforceStep

GrowthSpec == GrowthInit /\ [][GrowthNext]_vars

--------------------------------------------------------------------------
(* CableFEMPanel and FemWorker (gui/cable_fem.py)                          *)
(*                                                                         *)
(* The panel's slots run one at a time on the thread of the panel.  A      *)
(* signal emitted on a worker thread reaches a slot of the panel, or the   *)
(* quit slot of the QThread object, as a call queued for the panel's       *)
(* thread.  A click of the run button is an event of its own and is        *)
(* handled whenever the panel's thread is between two slots.  A thread is  *)
(* "solving" while FemWorker.run executes, "idle" while its event loop     *)
(* waits, "quitting" once quit was called, and "stopped" when it has left  *)
(* its event loop; QThread.isRunning holds in the first three.  The        *)
(* progress signal changes the value of the progress bar only and is left  *)
(* out.                                                                    *)

\* the QThread objects created in one exploration
MaxRuns == 3

\* the run requests handled in one exploration
MaxRequests == 4

\* what build_structured_mesh gives for the scene at the time of a call:
\* a ValueError, no cable, one cable, two cables
SceneBuilds == {None, Some(<<>>), Some(<<"A">>), Some(<<"A", "B">>)}

Threads == 1..Len(thread_state)

\* QThread.isRunning
IsRunning(id) == thread_state[id] \in {"solving", "idle", "quitting"}

\* line 338: self._worker_thread and self._worker_thread.isRunning()
Busy(thread) == ~IsNone(thread) /\ IsRunning(Val(thread))

Queued(slot, id) == \E k \in 1..Len(main_queue) : main_queue[k] = <<slot, id>>

\* the next queued call is for the slot
NextCall(slot) == main_queue # <<>> /\ Head(main_queue)[1] = slot

\* refresh_from_scene (240-266), from the refresh button or the main window
RefreshFromScene ==
    /\ ~aborted
    /\ \E built \in SceneBuilds : mesh_output' = built
    /\ UNCHANGED <<pending_loads, worker_thread, worker, latest_report, run_button,
                   refresh_button, progress_bar, thread_state, main_queue, requests,
                   aborted>>
    /\ UNCHANGED notPanelVars

\* _handle_run_clicked (337-399) on a click of the enabled run button, the
\* mesh build giving built
RunClicked ==
    /\ ~aborted
    /\ run_button
    /\ requests < MaxRequests
    /\ Len(thread_state) < MaxRuns
    /\ requests' = requests + 1
    /\ \E built \in SceneBuilds :
          IF Busy(worker_thread)
          THEN UNCHANGED <<mesh_output, pending_loads, worker_thread, worker,
                           latest_report, run_button, refresh_button, progress_bar,
                           thread_state>>
          ELSE IF IsNone(built)
          THEN /\ pending_loads' = <<>>
               /\ latest_report' = None
               /\ UNCHANGED <<mesh_output, worker_thread, worker, run_button,
                              refresh_button, progress_bar, thread_state>>
          ELSE IF Val(built) = <<>>
          THEN /\ pending_loads' = <<>>
               /\ latest_report' = None
               /\ mesh_output' = built
               /\ UNCHANGED <<worker_thread, worker, run_button, refresh_button,
                              progress_bar, thread_state>>
          ELSE /\ pending_loads' = Val(built)
               /\ latest_report' = None
               /\ mesh_output' = built
               /\ progress_bar' = TRUE
               /\ run_button' = FALSE
               /\ refresh_button' = FALSE
               /\ thread_state' = Append(thread_state, "solving")
               /\ worker_thread' = Some(Len(thread_state) + 1)
               /\ worker' = Some(Len(thread_state) + 1)
    /\ UNCHANGED <<main_queue, aborted>>
    /\ UNCHANGED notPanelVars

\* FemWorker.run (61-76) on the thread id: solve returns or raises, and the
\* signal emitted reaches its two connections (394-397) as queued calls
WorkerRun(id) ==
    /\ ~aborted
    /\ thread_state[id] = "solving"
    /\ thread_state' = [thread_state EXCEPT ![id] = "idle"]
    /\ \E signal \in {"finished", "error"} :
          main_queue' = main_queue \o << <<signal, id>>, <<"quit", id>> >>
    /\ UNCHANGED <<mesh_output, pending_loads, worker_thread, worker, latest_report,
                   run_button, refresh_button, progress_bar, requests, aborted>>
    /\ UNCHANGED notPanelVars

\* _on_worker_finished (444-468); generate_report succeeds or raises
OnWorkerFinished ==
    /\ ~aborted
    /\ NextCall("finished")
    /\ main_queue' = Tail(main_queue)
    /\ pending_loads' = <<>>
    /\ progress_bar' = FALSE
    /\ run_button' = TRUE
    /\ refresh_button' = TRUE
    /\ IF IsNone(mesh_output)
       THEN UNCHANGED latest_report
       ELSE \E report \in {None, Some(Head(main_queue)[2])} : latest_report' = report
    /\ UNCHANGED <<mesh_output, worker_thread, worker, thread_state, requests, aborted>>
    /\ UNCHANGED notPanelVars

\* _on_worker_error (470-476)
OnWorkerError ==
    /\ ~aborted
    /\ NextCall("error")
    /\ main_queue' = Tail(main_queue)
    /\ pending_loads' = <<>>
    /\ progress_bar' = FALSE
    /\ run_button' = TRUE
    /\ refresh_button' = TRUE
    /\ latest_report' = None
    /\ UNCHANGED <<mesh_output, worker_thread, worker, thread_state, requests, aborted>>
    /\ UNCHANGED notPanelVars

\* QThread.quit, connected at 396-397: the thread's event loop is told to end
Quit ==
    /\ ~aborted
    /\ NextCall("quit")
    /\ main_queue' = Tail(main_queue)
    /\ thread_state' = [thread_state EXCEPT ![Head(main_queue)[2]] =
                           IF @ = "idle" THEN "quitting" ELSE @]
    /\ UNCHANGED <<mesh_output, pending_loads, worker_thread, worker, latest_report,
                   run_button, refresh_button, progress_bar, requests, aborted>>
    /\ UNCHANGED notPanelVars

\* the thread id leaves its event loop: QThread.finished is emitted towards
\* the connection of line 398 and isRunning becomes false
ThreadExit(id) ==
    /\ ~aborted
    /\ thread_state[id] = "quitting"
    /\ thread_state' = [thread_state EXCEPT ![id] = "stopped"]
    /\ main_queue' = Append(main_queue, <<"thread_finished", id>>)
    /\ UNCHANGED <<mesh_output, pending_loads, worker_thread, worker, latest_report,
                   run_button, refresh_button, progress_bar, requests, aborted>>
    /\ UNCHANGED notPanelVars

\* _on_worker_thread_finished (478-484): deleteLater on the worker and the
\* thread the panel refers to now, and both references dropped
OnWorkerThreadFinished ==
    /\ ~aborted
    /\ NextCall("thread_finished")
    /\ main_queue' = IF IsNone(worker_thread) THEN Tail(main_queue)
                     ELSE Append(Tail(main_queue), <<"delete", Val(worker_thread)>>)
    /\ worker_thread' = None
    /\ worker' = None
    /\ UNCHANGED <<mesh_output, pending_loads, latest_report, run_button,
                   refresh_button, progress_bar, thread_state, requests, aborted>>
    /\ UNCHANGED notPanelVars

\* the deferred deletion asked for at line 482: Qt aborts the process when
\* a QThread object is destroyed while its thread is running
DeferredDelete ==
    /\ ~aborted
    /\ NextCall("delete")
    /\ main_queue' = Tail(main_queue)
    /\ IF IsRunning(Head(main_queue)[2])
       THEN aborted' = TRUE /\ UNCHANGED thread_state
       ELSE /\ thread_state' = [thread_state EXCEPT ![Head(main_queue)[2]] = "deleted"]
            /\ UNCHANGED aborted
    /\ UNCHANGED <<mesh_output, pending_loads, worker_thread, worker, latest_report,
                   run_button, refresh_button, progress_bar, requests>>
    /\ UNCHANGED notPanelVars

PanelInit ==
    /\ RunStart("none")
    /\ GrowthStart(IdleGrowth)
    /\ SolveStart(IdleCall)
    /\ ComputeStart(<<>>)
    /\ BuildStart(IdleBuild)
    /\ \E built \in SceneBuilds : PanelStart(built)

PanelNext ==
    \/ RefreshFromScene
    \/ RunClicked
    \/ \E id \in Threads : WorkerRun(id)
    \/ OnWorkerFinished
    \/ OnWorkerError
    \/ Quit
    \/ \E id \in Threads : ThreadExit(id)
    \/ OnWorkerThreadFinished
    \/ DeferredDelete

PanelSpec == PanelInit /\ [][PanelNext]_vars

--------------------------------------------------------------------------
(* FemWorker.run (gui/cable_fem.py 60-79) around solve                     *)
(*                                                                         *)
(* run calls solve with _handle_progress as the callback.  A report of     *)
(* solve calls _handle_progress before solve goes on: here the report is   *)
(* one step and the emission the next, and solve takes no step while a     *)
(* report waits for its emission.                                          *)

\* the calls of solve a worker makes: a callback is always supplied, the
\* analyzer keeps its default outer-iteration limit and solve its default
\* convection coefficient and resistivity mode; the mesh and the loads are
\* the panel's, and the size of the mesh decides on the direct solver
WorkerScenarios ==
    { sc \in Scenarios :
        /\ sc[3].progress_callback
        /\ sc[3].max_outer_iterations = MaxOuter
        /\ sc[3].surface_convection_w_per_m2k = 8
        /\ ~sc[3].simplified_constant_rho }

\* max(0.0, min(1.0, value)) on a value held as <<numerator, denominator>>
Clamped(value) ==
    LET capped == IF value[1] < value[2] THEN value ELSE <<1, 1>>
    IN  IF capped[1] > 0 THEN capped ELSE <<0, 1>>

\* the progress signals emitted so far
ProgressEmitted == SelectSeq(emitted, LAMBDA e : e[1] = "progress")

\* a report of solve whose call of _handle_progress has not emitted yet
ReportPending == Len(ProgressEmitted) < Len(progress)

\* variant: an except branch without its return
SignalsAfterRaiseFallingThrough(message) ==
    << <<"error", message>>, <<"finished", message>> >>

\* lines 73-75: error is emitted and run returns
SignalsAfterRaise(message) == << <<"error", message>> >>

\* _handle_progress (78-79)
HandleProgress ==
    /\ run_pc = "running"
    /\ ReportPending
    /\ emitted' = Append(emitted,
                         <<"progress", Clamped(progress[Len(ProgressEmitted) + 1])>>)
    /\ UNCHANGED run_pc
    /\ UNCHANGED notRunVars

\* lines 66-72: solve goes on
SolveInRun ==
    /\ run_pc = "running"
    /\ ~ReportPending
    /\ Next

\* line 76: solve has returned
EmitFinished ==
    /\ run_pc = "running"
    /\ ~ReportPending
    /\ pc = "done"
    /\ emitted' = Append(emitted, <<"finished", Val(result)>>)
    /\ run_pc' = "returned"
    /\ UNCHANGED notRunVars

\* lines 73-75: solve has raised
EmitError ==
    /\ run_pc = "running"
    /\ ~ReportPending
    /\ pc = "raised"
    /\ emitted' = emitted \o SignalsAfterRaise(Val(error))
    /\ run_pc' = "returned"
    /\ UNCHANGED notRunVars

RunInit ==
    /\ RunStart("running")
    /\ GrowthStart(IdleGrowth)
    /\ ComputeStart(<<>>)
    /\ BuildStart(IdleBuild)
    /\ PanelStart(None)
    /\ \E sc \in WorkerScenarios : SolveStart(sc)

RunNext ==
    \/ HandleProgress
    \/ SolveInRun
    \/ EmitFinished
    \/ EmitError

RunSpec == RunInit /\ [][RunNext]_vars

--------------------------------------------------------------------------
(* Properties of CableFemAnalyzer.solve *)

\* max_outer_iterations as the constructor stores it
StoredMaxOuter == IF cfg.max_outer_iterations < 1 THEN 1 ELSE cfg.max_outer_iterations

\* nodes of the mesh by position; node n (from 1) lies in column
\* (n - 1) \div ny and row (n - 1) % ny, row 0 being the top edge
NodeSet == 1..(Len(mesh.x_nodes_mm) * Len(mesh.y_nodes_mm))
ColumnOf(n) == (n - 1) \div Len(mesh.y_nodes_mm)
RowOf(n) == (n - 1) % Len(mesh.y_nodes_mm)
TopNodes == { n \in NodeSet : RowOf(n) = 0 }
BottomNodes == { n \in NodeSet : RowOf(n) = Len(mesh.y_nodes_mm) - 1 }
LeftNodes == { n \in NodeSet : ColumnOf(n) = 0 }
RightNodes == { n \in NodeSet : ColumnOf(n) = Len(mesh.x_nodes_mm) - 1 }
InteriorNodes == NodeSet \ (TopNodes \cup BottomNodes \cup LeftNodes \cup RightNodes)

\* C1: the returned converged flag is true exactly when every linear solve
\* of the run converged and the loop stopped because the last iteration
\* changed no heat value; a run that uses up max_outer_iterations while the
\* heat still changes returns, without error, a result with converged false.
C1_ConvergedFlag ==
    pc = "done" =>
        /\ ~IsNone(result)
        /\ IsNone(error)
        /\ Val(result).converged = (solver_converged /\ ~updated)
        /\ (updated => solves = StoredMaxOuter /\ ~Val(result).converged)

C1_Witness ==
    /\ pc = "done"
    /\ updated
    /\ solves = StoredMaxOuter
    /\ solves >= 2
    /\ IsNone(error)
    /\ ~Val(result).converged


\* steps solve() can still take: three per remaining outer iteration, then
\* the return
C2_Rank ==
    LET total == IF cfg.simplified_constant_rho THEN 1 ELSE StoredMaxOuter
        left == total - outer_index
    IN  CASE pc = "start" -> 3 * total + 3
          [] pc = "iter_begin" -> 3 * left + 2
          [] pc = "linear_solve" -> 3 * left + 1
          [] pc = "iter_end" -> 3 * left
          [] pc = "finish" -> 1
          [] OTHER -> 0

\* C2: for an accepted mesh the outer loop performs at least one and at most
\* max_outer_iterations linear solves and then ends (every step lowers a
\* rank that stays non-negative); the iteration whose heat update changes
\* nothing is the last one, and no solve follows the loop.
C2_OuterLoopBounded ==
    /\ [](solves <= StoredMaxOuter)
    /\ [](C2_Rank >= 0)
    /\ [][C2_Rank' < C2_Rank]_vars
    /\ [](pc \in {"iter_end", "finish", "done"} => solves >= 1)
    /\ [][(pc = "iter_end" /\ heat_values' = heat_values) => (pc' = "finish")]_vars
    /\ [][(pc \in {"finish", "done"}) => (solves' = solves)]_vars

\* an early stop: fewer solves than allowed, after more than one
C2_Witness ==
    /\ pc = "done"
    /\ ~updated
    /\ ~cfg.simplified_constant_rho
    /\ solves >= 2
    /\ solves < StoredMaxOuter

\* the meshes C3 speaks of, spelled from the mesh fields
C3_FewNodes == Len(mesh.x_nodes_mm) < 2 \/ Len(mesh.y_nodes_mm) < 2
C3_ShapeOk(a) ==
    /\ Len(a) = Len(mesh.y_nodes_mm) - 1
    /\ \A j \in 1..Len(a) : Len(a[j]) = Len(mesh.x_nodes_mm) - 1
C3_StrictlyIncreasing(nodes) ==
    \A k \in 1..(Len(nodes) - 1) : nodes[k] < nodes[k + 1]
C3_InvalidMesh ==
    \/ C3_FewNodes
    \/ ~C3_ShapeOk(mesh.thermal_resistivity_k_m_per_w)
    \/ ~C3_ShapeOk(mesh.conductor_index)
    \/ ~C3_StrictlyIncreasing(mesh.x_nodes_mm)
    \/ ~C3_StrictlyIncreasing(mesh.y_nodes_mm)

\* C3: a mesh with fewer than 2 nodes on an axis, with a resistivity or
\* conductor-index array of the wrong shape, or with an axis that is not
\* strictly increasing makes solve raise before any progress report and
\* before any linear solve.
C3_InvalidMeshRaisesFirst ==
    (C3_InvalidMesh /\ pc # "start") =>
        /\ pc = "raised"
        /\ ~IsNone(error)
        /\ progress = <<>>
        /\ solves = 0
        /\ IsNone(result)

\* a well-shaped mesh whose x axis goes back, run with a callback
C3_Witness ==
    /\ pc = "raised"
    /\ cfg.progress_callback
    /\ ~C3_FewNodes
    /\ C3_ShapeOk(mesh.thermal_resistivity_k_m_per_w)
    /\ C3_ShapeOk(mesh.conductor_index)
    /\ ~C3_StrictlyIncreasing(mesh.x_nodes_mm)
    /\ progress = <<>>
    /\ solves = 0

\* the program without a callback: every step that reports is taken as the
\* step of a run that was given none
NoCallbackNext ==
    \/ ValidateFail
    \/ AssembleWith(FALSE)
    \/ IterBeginWith(FALSE)
    \/ SolveDirect
    \/ SolveCg
    \/ SolveCgFails
    \/ IterEndWith(FALSE)
    \/ FinishWith(FALSE)

\* C8: every reported progress value lies in [0, 1], and every step of a run
\* changes the loop state and the result exactly as a step of the run without
\* callback does, so the iteration count and the result fields do not depend
\* on the callback.
C8_ProgressAdvisory ==
    /\ [](\A k \in 1..Len(progress) :
             /\ progress[k][2] > 0
             /\ 0 <= progress[k][1]
             /\ progress[k][1] <= progress[k][2])
    /\ [](~cfg.progress_callback => progress = <<>>)
    /\ [][NoCallbackNext]_coreVars

\* a run with callback that went round the loop more than once
C8_Witness ==
    /\ pc = "done"
    /\ cfg.progress_callback
    /\ solves >= 2
    /\ Len(progress) = 2 * solves + 2
    /\ progress[Len(progress) - 1] = <<solves, StoredMaxOuter>>

\* the value the returned field holds at node n
FieldAt(n) == Val(result).temperatures_c[RowOf(n) + 1][ColumnOf(n) + 1]

\* the boundary nodes C9 says are held at the ambient temperature
C9_FixedNodes ==
    LeftNodes \cup RightNodes \cup BottomNodes
    \cup (IF cfg.surface_convection_w_per_m2k <= 0 THEN TopNodes ELSE {})

\* C9: in every returned temperature field the left, right and bottom
\* boundary nodes, and the top ones when the convection coefficient is not
\* positive, hold the ambient temperature.
C9_BoundaryAtAmbient ==
    pc = "done" => \A n \in C9_FixedNodes : FieldAt(n) = cfg.ambient_temp_c

\* C10: a mesh without interior nodes makes solve raise instead of
\* assembling and solving a system.
C10_DegenerateMeshRaises ==
    (InteriorNodes = {} /\ pc # "start") => (pc = "raised" /\ solves = 0)

--------------------------------------------------------------------------
(* Properties of the heat bookkeeping of solve *)

\* the cells of the mesh as <<row, column>>, and the area of one in mm^2
CellSet ==
    { <<j, i>> : j \in 1..(Len(mesh.y_nodes_mm) - 1),
                 i \in 1..(Len(mesh.x_nodes_mm) - 1) }
CellArea(c) ==
    (mesh.x_nodes_mm[c[2] + 1] - mesh.x_nodes_mm[c[2]])
    * (mesh.y_nodes_mm[c[1] + 1] - mesh.y_nodes_mm[c[1]])

\* the cells owned by the cable of load k (from 1) and their total area
CellsOfLoad(k) == { c \in CellSet : mesh.conductor_index[c[1]][c[2]] = k - 1 }
RECURSIVE AreaOf(_)
AreaOf(cells) ==
    IF cells = {} THEN 0
    ELSE LET c == CHOOSE d \in cells : TRUE
         IN  CellArea(c) + AreaOf(cells \ {c})
OwnedArea(k) == AreaOf(CellsOfLoad(k))

\* load k heats its cells: positive heat and positive owned area
Heated(k) == heat_values[k] > 0 /\ OwnedArea(k) > 0

\* density x cell area summed over a set of cells (W/m^3 x mm^2)
RECURSIVE HeatOver(_)
HeatOver(cells) ==
    IF cells = {} THEN 0
    ELSE LET c == CHOOSE d \in cells : TRUE
         IN  heat_cells[c[1]][c[2]] * CellArea(c) + HeatOver(cells \ {c})

\* the heat cells are those of the current iteration
HeatCellsCurrent == pc \in {"linear_solve", "iter_end"}

\* C21: after _populate_heat_cells every cell not owned by a cable with
\* positive heat has density 0; all cells of a cable with positive heat and
\* positive owned area carry heat / owned_area, so density x area summed
\* over them gives the cable's heat; nothing of an earlier iteration is left.
C21_HeatCellsRebuilt ==
    HeatCellsCurrent =>
        /\ \A c \in CellSet :
              (\A k \in 1..Len(heat_values) : c \in CellsOfLoad(k) => ~Heated(k))
                  => heat_cells[c[1]][c[2]] = 0
        /\ \A k \in 1..Len(heat_values) :
              Heated(k) =>
                  /\ \A c \in CellsOfLoad(k) :
                        heat_cells[c[1]][c[2]] * OwnedArea(k)
                            = heat_values[k] * 1000000
                  /\ HeatOver(CellsOfLoad(k)) = heat_values[k] * 1000000

\* a later iteration with a changed heat, spread over two cells of
\* different area
C21_Witness ==
    /\ pc = "linear_solve"
    /\ solves >= 1
    /\ \E k \in 1..Len(heat_values) :
          /\ Heated(k)
          /\ heat_values[k] # loads[k].heat_w_per_m
          /\ \E c, d \in CellsOfLoad(k) : CellArea(c) # CellArea(d)

\* the max temperature sampled over the cells owned by the cable of load k
RECURSIVE MaxCellTemp(_)
MaxCellTemp(cells) ==
    LET c == CHOOSE d \in cells : TRUE
        here == (temperatures_grid[c[1]][c[2]] + temperatures_grid[c[1]][c[2] + 1]
                 + temperatures_grid[c[1] + 1][c[2]]
                 + temperatures_grid[c[1] + 1][c[2] + 1]) \div 4
    IN  IF cells = {c} THEN here ELSE Max2(here, MaxCellTemp(cells \ {c}))
OwnMaxTemp(k) == MaxCellTemp(CellsOfLoad(k))

\* load k is one the heat update recomputes: auto-update, positive nominal
\* current, a cable that owns cells, a conductor with area and resistivity
Recomputed(k) ==
    LET def == loads[k].definition
    IN  /\ loads[k].auto_update
        /\ ~IsNone(def.nominal_current_a) /\ Val(def.nominal_current_a) > 0
        /\ CellsOfLoad(k) # {}
        /\ def.conductor_area_mm2 > 0
        /\ ~IsNone(def.conductor_resistivity_ohm_mm2_per_m)
        /\ Val(def.conductor_resistivity_ohm_mm2_per_m) > 0

\* I^2 R of load k at the temperature theta
HeatAt(k, theta) ==
    LET def == loads[k].definition
        alpha == IF IsNone(def.conductor_temp_coefficient_per_c) THEN 0
                 ELSE Val(def.conductor_temp_coefficient_per_c)
        r == (Val(def.conductor_resistivity_ohm_mm2_per_m)
                 * (1 + alpha * (theta - 20))) \div def.conductor_area_mm2
    IN  Val(def.nominal_current_a) * Val(def.nominal_current_a) * r

\* the step that ends an outer iteration with a heat update
HeatUpdateStep == pc = "iter_end" /\ pc' # "iter_end" /\ ~cfg.simplified_constant_rho

\* C22: in each outer iteration the heat of an auto-update load is
\* recomputed from the max temperature over the cells of that load's own
\* cable (and replaced when it differs by more than the tolerance), for every
\* load list, also one in which two cable definitions carry the same label.
C22_OwnCableTemperature ==
    [][HeatUpdateStep =>
          \A k \in 1..Len(loads) :
              (Recomputed(k) /\ HeatAt(k, OwnMaxTemp(k)) > 0) =>
                  heat_values'[k] =
                      IF Abs(HeatAt(k, OwnMaxTemp(k)) - heat_values[k])
                             > Max2(cfg.heat_tolerance_w_per_m, 0)
                      THEN HeatAt(k, OwnMaxTemp(k))
                      ELSE heat_values[k]]_vars

\* C23: the heat_w_per_m of every returned result holds, for each load, the
\* heat that built the load vector of the last linear solve: the values in
\* force while the heat cells were populated stay as they are through that
\* solve and through the update that ends the loop, also when the loop ends
\* by reaching max_outer_iterations, and the result reports them.
C23_ReportedHeatUsed ==
    /\ [][(pc \in {"linear_solve", "finish"}) => heat_values' = heat_values]_vars
    /\ [][(pc = "iter_end" /\ pc' = "finish") => heat_values' = heat_values]_vars
    /\ [](pc = "done" => Val(result).heat_w_per_m = heat_values)

\* load k is one the heat update leaves alone: its flag is off, or it has
\* no positive nominal current, or its conductor has no area or resistivity
KeptFixed(k) ==
    LET def == loads[k].definition
    IN  \/ ~loads[k].auto_update
        \/ IsNone(def.nominal_current_a)
        \/ (~IsNone(def.nominal_current_a) /\ Val(def.nominal_current_a) <= 0)
        \/ def.conductor_area_mm2 <= 0
        \/ IsNone(def.conductor_resistivity_ohm_mm2_per_m)
        \/ (~IsNone(def.conductor_resistivity_ohm_mm2_per_m)
               /\ Val(def.conductor_resistivity_ohm_mm2_per_m) <= 0)

InputHeat(k) == IF loads[k].heat_w_per_m > 0 THEN loads[k].heat_w_per_m ELSE 0

\* C24: for a load that is not auto-update, or that lacks a positive nominal
\* current or a resolvable conductor resistance, the heat of every outer
\* iteration and of the result is max(input heat, 0); solve changes neither
\* the loads nor the mesh it was given.
C24_FixedLoadsUntouched ==
    /\ [](pc \in {"iter_begin", "linear_solve", "iter_end", "finish", "done"} =>
             \A k \in 1..Len(loads) :
                 KeptFixed(k) => heat_values[k] = InputHeat(k))
    /\ [](pc = "done" =>
             /\ Len(Val(result).heat_w_per_m) = Len(loads)
             /\ \A k \in 1..Len(loads) :
                   KeptFixed(k) => Val(result).heat_w_per_m[k] = InputHeat(k))
    /\ [][loads' = loads /\ mesh' = mesh]_vars

\* a run of several iterations in which an auto-update load changed while a
\* load with negative input heat and the flag off sat on a heated cable
C24_Witness ==
    /\ pc = "done"
    /\ solves >= 2
    /\ \E k, n \in 1..Len(loads) :
          /\ KeptFixed(k)
          /\ loads[k].heat_w_per_m < 0
          /\ CellsOfLoad(k) # {}
          /\ \E e \in 1..Len(cable_temperatures) :
                /\ cable_temperatures[e].label = loads[k].definition.label
                /\ cable_temperatures[e].max_temp_c > cfg.ambient_temp_c
          /\ ~KeptFixed(n)
          /\ Val(result).heat_w_per_m[n] # InputHeat(n)

\* the denominator of the reports made inside the loop
ReportedTotal == IF cfg.simplified_constant_rho THEN 1 ELSE StoredMaxOuter

\* report a is not above report b, both held as <<numerator, denominator>>
NotAbove(a, b) == a[1] * b[2] <= b[1] * a[2]

LastReport == progress[Len(progress)]

\* C28: in a call with a progress callback that returns normally the
\* reported values never decrease, the first is 0.0 and the last is 1.0, also
\* after an early stop; each iteration's start report is made before its
\* linear solve and its end report after it.
C28_ProgressOrdered ==
    cfg.progress_callback =>
        /\ \A k \in 1..(Len(progress) - 1) : NotAbove(progress[k], progress[k + 1])
        /\ (pc \notin {"start", "raised"}) => progress[1] = <<0, 1>>
        /\ pc = "linear_solve" =>
              /\ Len(progress) = 2 * solves + 2
              /\ LastReport = <<solves, ReportedTotal>>
        /\ pc = "iter_end" =>
              /\ Len(progress) = 2 * solves
              /\ LastReport = <<solves - 1, ReportedTotal>>
        /\ (pc = "finish" \/ (pc = "iter_begin" /\ solves > 0)) =>
              /\ Len(progress) = 2 * solves + 1
              /\ LastReport = <<solves, ReportedTotal>>
        /\ pc = "done" =>
              /\ Len(progress) = 2 * solves + 2
              /\ LastReport = <<1, 1>>

\* a run that stopped early: its last report inside the loop is below 1.0
C28_Witness ==
    /\ pc = "done"
    /\ cfg.progress_callback
    /\ solves >= 2
    /\ solves < ReportedTotal
    /\ progress[1] = <<0, 1>>
    /\ progress[Len(progress) - 1] = <<solves, ReportedTotal>>
    /\ LastReport = <<1, 1>>

--------------------------------------------------------------------------
(* Properties of CableAmpacityCalculator._compute_result *)

\* the issue string msg is among the issues collected so far
HasIssue(msg) == \E i \in 1..Len(issues) : issues[i] = msg

\* params.conductor_temp_c - params.ambient_temp_c of the call
DeltaTheta == amp_in.params.conductor_temp_c - amp_in.params.ambient_temp_c

\* C4: _compute_result never raises. No helper evaluates a logarithm, a
\* square root or a division outside its domain, so the call never leaves
\* through an exception, and it ends with an AmpacityResult for the phase it
\* was asked about, carrying the values and issues computed on the way.
C4_NeverRaises ==
    /\ ~amp_raised
    /\ amp_pc \in {"start", "radial", "external", "combine", "return", "done"}
    /\ amp_pc # "done" => IsNone(amp_result)
    /\ amp_pc = "done" =>
           /\ ~IsNone(amp_result)
           /\ Val(amp_result).label = Population[amp_in.target].label
           /\ Val(amp_result).t4 = t4
           /\ Val(amp_result).ampacity_a = ampacity
           /\ Val(amp_result).issues = issues

\* a result is returned for a phase in a concrete duct bank, after the
\* roots and logarithms of the bank model were taken
C4_Witness ==
    /\ amp_pc = "done"
    /\ ~IsNone(amp_in.items[1][1].duct)
    /\ \E k \in 1..Len(amp_in.config.layers) : amp_in.config.layers[k].kind = "concrete"
    /\ ~IsNone(t4)
    /\ ~IsNone(ampacity)

\* C5: in every returned AmpacityResult each null field among the conductor
\* resistance, T1, T2, T3, T4 and the ampacity comes with at least one issue
\* string; in particular a null ampacity implies a non-empty issue list.
C5_NullsExplained ==
    amp_pc = "done" =>
        \A field \in {conductor_resistance, t1, t2, t3, t4, ampacity} :
            IsNone(field) => issues # <<>>

\* C6: in every returned AmpacityResult a null conductor resistance, T1, T2,
\* T3 or T4 comes with a null ampacity.
C6_NullPropagates ==
    amp_pc = "done" =>
        ((\E field \in {conductor_resistance, t1, t2, t3, t4} : IsNone(field))
            => IsNone(ampacity))

\* C7: once the rating branch is past, the ampacity is non-null only if the
\* temperature difference, the numerator and the denominator are all
\* positive, and then it is positive itself; a temperature difference that is
\* not positive, a numerator that is not positive, and a denominator that is
\* not positive each leave the ampacity null and an issue naming the cause
\* (the numerator's when both it and the denominator fail, as it is tested
\* first).
C7_AmpacityGuarded ==
    amp_pc \in {"return", "done"} =>
        /\ ~IsNone(ampacity) =>
               /\ DeltaTheta > 0
               /\ ~IsNone(numerator) /\ Val(numerator) > 0
               /\ ~IsNone(denominator) /\ Val(denominator) > 0
               /\ Val(ampacity) > 0
        /\ DeltaTheta <= 0 =>
               /\ IsNone(ampacity)
               /\ HasIssue("Conductor temperature must exceed ambient.")
        /\ (~IsNone(numerator) /\ Val(numerator) <= 0) =>
               /\ IsNone(ampacity)
               /\ HasIssue("Dielectric losses exceed allowable temperature rise.")
        /\ (~IsNone(denominator) /\ Val(denominator) <= 0) =>
               /\ IsNone(ampacity)
               /\ \/ HasIssue("Invalid denominator for current calculation.")
                  \/ /\ Val(numerator) <= 0
                     /\ HasIssue("Dielectric losses exceed allowable temperature rise.")

\* a call returns with a positive numerator over a denominator that is not
\* positive
C7_Witness ==
    /\ amp_pc = "done"
    /\ ~IsNone(numerator) /\ Val(numerator) > 0
    /\ ~IsNone(denominator) /\ Val(denominator) <= 0
    /\ IsNone(ampacity)

--------------------------------------------------------------------------
(* Properties of repeated and grouped ampacity computations *)

CoLocatedPhase ==
    \E k \in 1..Len(Population) :
        /\ k # amp_in.target
        /\ Population[k].position_mm = Population[amp_in.target].position_mm

\* two cables of the list have the same centre
CoincidentCables(cable_list) ==
    \E a, b \in 1..Len(cable_list) :
        /\ a < b
        /\ cable_list[a].centre_x_mm = cable_list[b].centre_x_mm
        /\ cable_list[a].centre_y_mm = cable_list[b].centre_y_mm

\* the cable with index idx owns a cell of conductor_index
OwnsCell(idx) ==
    \E j \in 1..Len(conductor_index) :
        \E i \in 1..Len(conductor_index[j]) : conductor_index[j][i] = idx

\* C16: two identical cables with the same centre are surfaced by both
\* engines. The ampacity result of a co-located phase carries an issue, and
\* the mesh build reports an error instead of leaving one of the cables
\* without any owned cell.
C16_CoincidentSurfaced ==
    /\ (amp_pc = "done" /\ CoLocatedPhase) => Val(amp_result).issues # <<>>
    /\ (build_pc = "done" /\ CoincidentCables(cables))
       => \/ ~IsNone(build_error)
          \/ \A k \in 1..Len(cables) : OwnsCell(k - 1)

\* the phase _compute_result was asked about, its depth below the surface
\* and the soil layer at that depth
TargetInstance == Population[amp_in.target]
TargetDepth ==
    Max2(TargetInstance.position_mm[2] - amp_in.config.surface_level_y, 0)
TargetLayer == SoilLayerForDepth(amp_in.config.layers, TargetDepth)

\* the environment _external_resistance classified the target into, none
\* when it returned before classifying
ClassifiedAs ==
    IF IsNone(TargetLayer) \/ Val(TargetLayer).thermal_resistivity_k_m_per_w <= 0
    THEN None
    ELSE Some(DetermineEnvironment(TargetInstance.system, TargetDepth, TargetLayer))

\* _external_resistance has returned in the current call
ExternalReturned == amp_pc \in {"combine", "return", "done"}

\* C17 as stated: whenever the environment of the phase is classified as
\* trough or air, _external_resistance records an issue and returns a null
\* T4.
C17_TroughAirNull ==
    (ExternalReturned /\ ClassifiedAs \in {Some("AIR"), Some("TROUGH")})
    => (IsNone(t4) /\ issues # <<>>)

\* C17 amended: an air environment records the air issue and returns a
\* null T4; a trough environment (concrete without a valid duct) records
\* the notice that the trough is treated as direct burial and returns the
\* value of the buried-medium formula for the concrete's resistivity, with
\* every other phase of the population in the mutual-heating product; T4 is
\* null there only together with one more issue.
C17_TroughAsDirectBurial ==
    ExternalReturned =>
        /\ ClassifiedAs = Some("AIR")
           => /\ IsNone(t4)
              /\ HasIssue("Air installation thermal resistance requires additional ambient data.")
        /\ ClassifiedAs = Some("TROUGH")
           => /\ HasIssue("Concrete trough modelling not yet implemented; treating as direct burial.")
              /\ IsNone(t4) => Len(issues) >= 2
              /\ ~IsNone(OuterDiameterOr(TargetInstance))
                 => t4 = BuriedMediumResistance(
                             Val(OuterDiameterOr(TargetInstance)), TargetDepth,
                             Val(TargetLayer).thermal_resistivity_k_m_per_w,
                             amp_in.target, Population,
                             amp_in.config.surface_level_y, None).value

\* a phase in a concrete layer without a duct got a T4 and an ampacity
C17_Witness ==
    /\ amp_pc = "done"
    /\ ClassifiedAs = Some("TROUGH")
    /\ ~IsNone(t4)
    /\ Val(t4) > 0
    /\ ~IsNone(ampacity)

\* the instances a and b lie in one duct: phases of one system whose duct
\* takes three phases
SharesDuct(a, b) ==
    /\ a.system.identifier = b.system.identifier
    /\ ~IsNone(a.system.duct)
    /\ Val(a.system.duct).occupancy = "three_phases_per_duct"

\* the members of the population that are the target or lie outside its duct
OutsideDuct(k) == k = amp_in.target \/ ~SharesDuct(Population[k], TargetInstance)

\* the population without the phases that share the target's duct, and the
\* target's index in it
PopulationOutsideDuct ==
    LET kept == SelectSeq([k \in 1..Len(Population) |-> k], OutsideDuct)
    IN  [k \in 1..Len(kept) |-> Population[kept[k]]]

TargetOutsideDuct == Cardinality({k \in 1..amp_in.target : OutsideDuct(k)})

\* C18: in every buried-formula evaluation of T4 a phase in the same duct
\* as the target contributes no factor to the mutual-heating product: T4
\* is the value obtained for the population without the phases that share
\* the target's duct.
C18_SameDuctExcluded ==
    (ExternalReturned /\ ~IsNone(t4))
    => t4 = ExternalResistance(TargetOutsideDuct, PopulationOutsideDuct,
                               amp_in.params, amp_in.config).value

\* n of the ampacity relation
LoadedConductors == Max2(amp_in.params.loaded_conductors, 1)

\* the numerator of the ampacity relation from the values of the call, in
\* thousandths of a kelvin
RelationNumerator ==
    1000 * DeltaTheta
    - Mul(amp_in.params.dielectric_loss_w_per_m,
          Quot(OrZero(t1), 2)
          + LoadedConductors * (OrZero(t2) + OrZero(t3) + OrZero(t4)))

\* T2 and T3 + T4 weighted by their loss factors
WeightedT2 == Mul(1000 + amp_in.params.sheath_loss_factor, OrZero(t2))
WeightedT3T4 ==
    Mul(1000 + amp_in.params.sheath_loss_factor + amp_in.params.armour_loss_factor,
        OrZero(t3) + OrZero(t4))

\* n R (T1 + (1 + l1) T2 + (1 + l1 + l2) (T3 + T4))
DenominatorAllTermsByN ==
    LoadedConductors
    * Mul(OrZero(conductor_resistance), OrZero(t1) + WeightedT2 + WeightedT3T4)

\* R T1 + n R (1 + l1) T2 + n R (1 + l1 + l2) (T3 + T4)
DenominatorT1Once ==
    Mul(OrZero(conductor_resistance), OrZero(t1))
    + LoadedConductors * Mul(OrZero(conductor_resistance), WeightedT2 + WeightedT3T4)

\* the current whose square is the quotient, within the rounding of the
\* fixed-point values (one part in a hundred and one ampere)
RootOfQuotient(current, num, den) ==
    /\ den > 0
    /\ 100 * Abs(current - Sqrt(Quot(1000 * num, den))) <= current + 100

\* C19 as stated: a non-null ampacity is the root of the numerator over
\* n R (T1 + (1 + l1) T2 + (1 + l1 + l2)(T3 + T4)), the factor n multiplying
\* every term of the denominator, the T1 term included.
C19_AllTermsByN ==
    (amp_pc \in {"return", "done"} /\ ~IsNone(ampacity))
    => RootOfQuotient(Val(ampacity), RelationNumerator, DenominatorAllTermsByN)

\* C19 amended: a non-null ampacity is the root of the numerator over
\* R T1 + n R (1 + l1) T2 + n R (1 + l1 + l2)(T3 + T4): the factor n
\* multiplies the T2 and T3 + T4 terms and not the T1 term.
C19_T1TermOnce ==
    (amp_pc \in {"return", "done"} /\ ~IsNone(ampacity))
    => /\ numerator = Some(RelationNumerator)
       /\ RootOfQuotient(Val(ampacity), RelationNumerator, DenominatorT1Once)

\* an ampacity for three loaded conductors, with T2, T3 and losses present
C19_Witness ==
    /\ amp_pc = "done"
    /\ ~IsNone(ampacity)
    /\ LoadedConductors = 3
    /\ OrZero(t2) > 0
    /\ OrZero(t3) > 0
    /\ amp_in.params.sheath_loss_factor > 0
    /\ amp_in.params.dielectric_loss_w_per_m > 0

--------------------------------------------------------------------------
(* Properties of _radial_resistances *)

\* the target is a single-core system with a phase that has layers
HasProfile ==
    /\ TargetInstance.system.kind = "single_core"
    /\ ~IsNone(TargetInstance.system.single_core_phase)
    /\ Val(TargetInstance.system.single_core_phase).layers # <<>>

TargetProfile == RadialProfile(Val(TargetInstance.system.single_core_phase))

\* the position (from 1) of the first layer with the role, 0 without one
FirstWithRole(role) ==
    LET at == { k \in 1..Len(TargetProfile) : TargetProfile[k][1].role = role }
    IN  IF at = {} THEN 0 ELSE CHOOSE k \in at : \A h \in at : k <= h

SheathAt == FirstWithRole("sheath")
ArmourAt == FirstWithRole("armour")

\* the thermal resistance of the layer at position k
LayerResistance(k) ==
    LET entry == TargetProfile[k]
    IN  IF SkipLayer(entry[2], entry[3]) THEN 0
        ELSE OverTwoPi(Val(ThermalResistivity(entry[1])), LayerLog(entry[2], entry[3]))

HasResistivity(k) ==
    LET rho == ThermalResistivity(TargetProfile[k][1])
    IN  ~IsNone(rho) /\ Val(rho) > 0

\* the resistance of the layers at the positions in group: null when one of
\* them has no thermal resistivity
GroupResistance(group) ==
    IF \A k \in group : HasResistivity(k)
    THEN Some(SeqSum([k \in 1..Len(TargetProfile) |->
                        IF k \in group THEN LayerResistance(k) ELSE 0]))
    ELSE None

AllLayers == 1..Len(TargetProfile)
InsideSheath == IF SheathAt = 0 THEN AllLayers ELSE 1..(SheathAt - 1)
SheathToArmour == { k \in AllLayers : SheathAt <= k /\ k < ArmourAt }
ArmourOutward == { k \in AllLayers : k >= ArmourAt }

\* _radial_resistances has returned normally
RadialReturned == amp_pc = "external" /\ HasProfile

\* C25: T1 holds the layers inside the sheath, T2 those from the sheath to
\* the armour, T3 those from the armour outward; without a sheath or without
\* an armour T2 is 0 and T3 holds every layer that T1 does not.
C25_LayerGroups ==
    RadialReturned =>
        /\ t1 = GroupResistance(InsideSheath)
        /\ (SheathAt # 0 /\ ArmourAt # 0) =>
              /\ t2 = GroupResistance(SheathToArmour)
              /\ t3 = GroupResistance(ArmourOutward)
        /\ (SheathAt = 0 \/ ArmourAt = 0) =>
              /\ t2 = Some(0)
              /\ t3 = GroupResistance(AllLayers \ InsideSheath)

\* insulation, sheath, armour and serving: three groups, each with a layer
\* that has a resistance
C25_Witness ==
    /\ RadialReturned
    /\ 1 < SheathAt /\ SheathAt < ArmourAt /\ ArmourAt < Len(TargetProfile)
    /\ ~IsNone(t1) /\ Val(t1) > 0
    /\ ~IsNone(t2) /\ Val(t2) > 0
    /\ ~IsNone(t3) /\ Val(t3) > Val(t2)

\* C29: for every layer stack, in any order of roles, each layer counts in
\* exactly one of T1, T2 and T3, so that T1 + T2 + T3 is the sum of the
\* per-layer resistances over the whole stack.
C29_EachLayerOnce ==
    (RadialReturned /\ \A k \in AllLayers : HasResistivity(k)) =>
        /\ ~IsNone(t1) /\ ~IsNone(t2) /\ ~IsNone(t3)
        /\ Val(t1) + Val(t2) + Val(t3) = Val(GroupResistance(AllLayers))

--------------------------------------------------------------------------
(* Properties of the duct branches of _external_resistance *)

\* the duct of the target and the equivalent diameter of its cable
TargetDuct == Val(TargetInstance.system.duct)
TargetEquivalentDiameter ==
    EquivalentCableDiameter(
        TargetDuct, OverallDiameter(Val(TargetInstance.system.single_core_phase)))

\* a duct in concrete for which _external_resistance returned a value
DuctBankResolved ==
    /\ ExternalReturned
    /\ ClassifiedAs = Some("CONCRETE_DUCT")
    /\ ~IsNone(t4)

\* C27: for the same duct, cable diameter and medium temperature the
\* concrete-duct-bank branch computes the contact term and the duct-wall
\* term with the formulas of the plain duct branch: the terms are equal.
C27_SameContactAndWall ==
    DuctBankResolved =>
        /\ ConcreteDuctContactTerm(TargetDuct, TargetEquivalentDiameter, amp_in.params)
               = DuctContactTerm(TargetDuct, TargetEquivalentDiameter, amp_in.params)
        /\ ConcreteDuctWallTerm(TargetDuct) = DuctWallTerm(TargetDuct)

--------------------------------------------------------------------------
(* Properties of build_structured_mesh *)

\* the mesh build_structured_mesh returned
BuiltMesh == Val(build_output).mesh

CellRows == 1..(Len(y_nodes_mm) - 1)
CellColumns == 1..(Len(x_nodes_mm) - 1)

\* no two cables of the list touch or overlap
NoOverlap(cable_list) ==
    \A a, b \in 1..Len(cable_list) :
        a < b => Hypot(cable_list[a].centre_x_mm - cable_list[b].centre_x_mm,
                       cable_list[a].centre_y_mm - cable_list[b].centre_y_mm)
                 > OverallRadius(cable_list[a]) + OverallRadius(cable_list[b])

\* every cable of the list lies strictly inside the trench
InsideTrench(cable_list, config) ==
    \A k \in 1..Len(cable_list) :
        /\ 2 * (Abs(cable_list[k].centre_x_mm) + OverallRadius(cable_list[k]))
               < config.trench_width_mm
        /\ cable_list[k].centre_y_mm - OverallRadius(cable_list[k]) > config.surface_level_y
        /\ cable_list[k].centre_y_mm + OverallRadius(cable_list[k])
               < config.surface_level_y + config.trench_depth_mm

\* the centre of cell (j, i) lies inside the conductor of the cable
CentreInConductor(cable, j, i) ==
    /\ Abs(x_nodes_mm[i] + x_nodes_mm[i + 1] - 2 * cable.centre_x_mm)
           <= 2 * ConductorRadius(cable)
    /\ Abs(y_nodes_mm[j] + y_nodes_mm[j + 1] - 2 * cable.centre_y_mm)
           <= 2 * ConductorRadius(cable)
    /\ Hypot(x_nodes_mm[i] + x_nodes_mm[i + 1] - 2 * cable.centre_x_mm,
             y_nodes_mm[j] + y_nodes_mm[j + 1] - 2 * cable.centre_y_mm)
           <= 2 * ConductorRadius(cable)

\* C11: for cables strictly inside the trench that do not overlap, the
\* build succeeds, every conductor_index entry is -1 or the index of a
\* cable, a cell whose centre lies inside a conductor carries that cable's
\* index, and no cell passes the ownership test of two cables.
C11_ExclusiveOwnership ==
    (/\ build_pc = "done"
     /\ NoOverlap(cables)
     /\ InsideTrench(cables, scene.config))
    => /\ IsNone(build_error) /\ ~IsNone(build_output)
       /\ \A j \in CellRows, i \in CellColumns :
             /\ conductor_index[j][i] \in (-1)..(Len(cables) - 1)
             /\ \A k \in 1..Len(cables) :
                   /\ CentreInConductor(cables[k], j, i) => conductor_index[j][i] = k - 1
                   /\ \A other \in 1..Len(cables) :
                         (other # k /\ OwnedBy(cables[k], x_nodes_mm, y_nodes_mm, j, i))
                         => ~OwnedBy(cables[other], x_nodes_mm, y_nodes_mm, j, i)

StrictlyIncreasing(nodes) == \A k \in 1..(Len(nodes) - 1) : nodes[k] < nodes[k + 1]

\* C12: every mesh build_structured_mesh returns has strictly increasing
\* node axes and resistivity and conductor_index arrays of shape
\* (len(y_nodes) - 1, len(x_nodes) - 1), and passes the validation of
\* CableFemAnalyzer.solve.
C12_MeshWellFormed ==
    (build_pc = "done" /\ ~IsNone(build_output))
    => /\ StrictlyIncreasing(BuiltMesh.x_nodes_mm)
       /\ StrictlyIncreasing(BuiltMesh.y_nodes_mm)
       /\ ArrayShape(BuiltMesh.thermal_resistivity_k_m_per_w)
              = Some(<<Len(BuiltMesh.y_nodes_mm) - 1, Len(BuiltMesh.x_nodes_mm) - 1>>)
       /\ ArrayShape(BuiltMesh.conductor_index)
              = Some(<<Len(BuiltMesh.y_nodes_mm) - 1, Len(BuiltMesh.x_nodes_mm) - 1>>)
       /\ ValidationError(BuiltMesh) = None

\* a returned mesh refined around two cables and a duct-free soil stack
C12_Witness ==
    /\ build_pc = "done"
    /\ ~IsNone(build_output)
    /\ Len(cables) = 2
    /\ Len(BuiltMesh.x_nodes_mm) > 50
    /\ Len(BuiltMesh.y_nodes_mm) > 50
    /\ \E j \in CellRows, i \in CellColumns : BuiltMesh.conductor_index[j][i] = 1

\* C13: in every mesh build_structured_mesh returns, every cell's thermal
\* resistivity is at least the numerical floor, whatever resistivities the
\* soil layers, ducts, cable layers and the default supply.
C13_ResistivityFloor ==
    (build_pc = "done" /\ ~IsNone(build_output))
    => \A j \in 1..Len(BuiltMesh.thermal_resistivity_k_m_per_w) :
          \A i \in 1..Len(BuiltMesh.thermal_resistivity_k_m_per_w[j]) :
             BuiltMesh.thermal_resistivity_k_m_per_w[j][i] >= MIN_RESISTIVITY

\* a returned mesh for soil layers with zero, negative and missing
\* resistivity, a negative default and a cable whose layers have none either
C13_Witness ==
    /\ build_pc = "done"
    /\ ~IsNone(build_output)
    /\ scene.config.layers = SoilStacks[3]
    /\ default_resistivity_k_m_per_w < 0
    /\ Len(cables) = 1
    /\ cables[1].layers[1].thermal_resistivity_k_m_per_w = MIN_RESISTIVITY
    /\ \E j \in CellRows, i \in CellColumns :
          BuiltMesh.thermal_resistivity_k_m_per_w[j][i] = MIN_RESISTIVITY

\* C14: whatever grid_step_mm and padding_mm are passed, they are clamped
\* to the floors of 5 mm and 50 mm, the degenerate-domain error is never
\* raised, and the mesh returned has at least 2 nodes on each axis.
C14_FloorsAndNoDegenerateDomain ==
    /\ IsNone(build_error)
    /\ build_pc # "start"
       => /\ grid_step_mm = Max2(build_call.grid_step_mm, 500)
          /\ padding_mm = Max2(build_call.padding_mm, 5000)
    /\ build_pc \in {"refine", "base", "ducts", "cables", "done"}
       => (Len(x_nodes_mm) >= 2 /\ Len(y_nodes_mm) >= 2)
    /\ build_pc = "done"
       => /\ ~IsNone(build_output)
          /\ Len(BuiltMesh.x_nodes_mm) >= 2
          /\ Len(BuiltMesh.y_nodes_mm) >= 2

\* a mesh returned for a zero grid step and a negative padding
C14_Witness ==
    /\ build_pc = "done"
    /\ ~IsNone(build_output)
    /\ build_call.grid_step_mm = 0
    /\ build_call.padding_mm < 0
    /\ grid_step_mm = 500
    /\ padding_mm = 5000
    /\ Len(BuiltMesh.x_nodes_mm) = 2

--------------------------------------------------------------------------
(* Properties of _enforce_spacing_growth *)

\* the call is one the claim speaks of: at least two nodes, a positive
\* ratio, a relevant position
GrowthApplies ==
    /\ Len(growth_call.nodes) >= 2
    /\ growth_call.growth_ratio > 0
    /\ growth_call.relevant_positions # <<>>

NodeValues(nodes) == { nodes[k] : k \in 1..Len(nodes) }

\* the reference points of the call: the relevant positions and the two
\* ends of the domain
ReferencePoints ==
    NodeValues(growth_call.relevant_positions)
    \cup { v \in NodeValues(growth_call.nodes) :
             \/ \A w \in NodeValues(growth_call.nodes) : v <= w
             \/ \A w \in NodeValues(growth_call.nodes) : v >= w }

\* min_step as the function floors it (1e-6 mm, one unit here)
FlooredStep == IF growth_call.min_step > 1 THEN growth_call.min_step ELSE 1

\* max(min_step, growth_ratio x distance from the midpoint of [a, b] to the
\* nearest reference point); the distance is kept doubled, the ratio is in
\* thousandths
AllowedWidth(a, b) ==
    LET twice == { Abs(a + b - 2 * ref) : ref \in ReferencePoints }
        nearest == CHOOSE d \in twice : \A e \in twice : d <= e
        grown == Quot(nearest * growth_call.growth_ratio, 2000)
    IN  IF grown > FlooredStep THEN grown ELSE FlooredStep

\* every interval of the result is as narrow as allowed
WithinGrowth ==
    \A k \in 1..(Len(growth_result) - 1) :
        growth_result[k + 1] - growth_result[k]
            <= AllowedWidth(growth_result[k], growth_result[k + 1])

\* the result keeps the nodes it was given, in rising order, and has no
\* node inside an interval that was narrow enough
OnlyViolatingSubdivided ==
    /\ NodeValues(growth_call.nodes) \subseteq NodeValues(growth_result)
    /\ \A k \in 1..(Len(growth_result) - 1) : growth_result[k] < growth_result[k + 1]
    /\ \A a, b \in NodeValues(growth_call.nodes) :
          (/\ a < b
           /\ \A c \in NodeValues(growth_call.nodes) : ~(a < c /\ c < b)
           /\ b - a <= AllowedWidth(a, b))
              => \A c \in NodeValues(growth_result) : ~(a < c /\ c < b)

\* the passes of the while loop the call made
PassesMade ==
    GrowthPasses(SortedSet(growth_call.nodes), ReferencePoints,
                 growth_call.growth_ratio, FlooredStep)

\* a bound on the passes: every pass but the last adds a node, and the
\* nodes of the result are distinct values of the domain
PassBound ==
    SeqMax(growth_call.nodes) - SeqMin(growth_call.nodes) + 1

--------------------------------------------------------------------------
(* Properties of FemWorker.run *)

\* the positions of the terminal signals among the emitted ones
TerminalAt == { k \in 1..Len(emitted) : emitted[k][1] \in {"finished", "error"} }

\* C30: an invocation of FemWorker.run emits exactly one terminal signal,
\* finished when solve returned and error when it raised, never both and
\* never none, and emits it after every progress emission of the run; every
\* progress value emitted lies in [0, 1].
C30_OneTerminalSignal ==
    /\ run_pc = "running" => TerminalAt = {}
    /\ run_pc = "returned" =>
          /\ TerminalAt = {Len(emitted)}
          /\ Len(ProgressEmitted) = Len(progress)
          /\ (emitted[Len(emitted)][1] = "finished") = (pc = "done")
          /\ (emitted[Len(emitted)][1] = "error") = (pc = "raised")
    /\ \A k \in 1..Len(ProgressEmitted) :
          /\ ProgressEmitted[k][2][2] > 0
          /\ 0 <= ProgressEmitted[k][2][1]
          /\ ProgressEmitted[k][2][1] <= ProgressEmitted[k][2][2]

\* a run whose solve raised in its second outer iteration, after progress
\* had been emitted
C30_Witness ==
    /\ run_pc = "returned"
    /\ pc = "raised"
    /\ solves >= 1
    /\ Len(emitted) = Len(progress) + 1
    /\ Len(progress) >= 3
    /\ emitted[Len(emitted)][1] = "error"

--------------------------------------------------------------------------
(* Properties of CableFEMPanel *)

\* the threads whose worker is inside analyzer.solve
Solving == {id \in Threads : thread_state[id] = "solving"}

\* at most one worker is solving
OneSolveAtATime == Cardinality(Solving) <= 1

\* from the start of a solve until its finished or error signal has been
\* handled, the run and refresh buttons are disabled
ButtonsDisabledDuringSolve ==
    (\E id \in Threads :
        thread_state[id] = "solving" \/ Queued("finished", id) \/ Queued("error", id))
    => (~run_button /\ ~refresh_button)

\* a step that handles a run request
RunRequest == requests' # requests

\* a run request handled while a worker thread is running starts no worker
\* and leaves the pending loads as they are
RequestIgnoredWhileRunning ==
    (RunRequest /\ \E id \in Threads : IsRunning(id))
    => (thread_state' = thread_state /\ pending_loads' = pending_loads)

\* handling the finished or the error signal enables both buttons
ButtonsEnabledBySignal ==
    ((NextCall("finished") \/ NextCall("error")) /\ main_queue' = Tail(main_queue))
    => (run_button' /\ refresh_button')

\* C20: the panel never runs two field solves at once. A run request
\* received while a worker thread is running starts no new worker and
\* leaves the pending loads untouched, and the run and refresh buttons stay
\* disabled from the start of a solve until its finished or error signal has
\* been handled, after which they are enabled again.
C20_OneSolveAtATime ==
    /\ [](OneSolveAtATime /\ ButtonsDisabledDuringSolve)
    /\ [][RequestIgnoredWhileRunning /\ ButtonsEnabledBySignal]_vars

==========================================================================
